---- MODULE Spec2Model ----
(***************************************************************************)
(* Conversation harvesting and incremental export engine.                  *)
(*                                                                         *)
(* The module holds one state machine per component of the exporter:       *)
(*   SpecSaver    ConversationSaver: response harvester, loadThreadFromURL *)
(*                and fetchNextPages                                       *)
(*   SpecDM       DownloadManager: waitForDownload and the CDP listeners   *)
(*   SpecRun      runAutoExport / manualExport: the per-record retry loop  *)
(*   SpecClassify parseLibraryTimestamp and shouldReDownload               *)
(*   SpecDone     loadDoneFile (legacy migration)                          *)
(*   SpecDL       downloadGeneratedFiles over its own DownloadManager      *)
(*   SpecLatest   the commit of a record with its latest entry time        *)
(*   SpecIndex    updateSearchIndex at the commit of a record              *)
(*   SpecLog      logError and logSkippedFiles                             *)
(*   SpecObserve  the response handler alone, on every thread              *)
(*   SpecScroll   the scroll loop of getConversations                      *)
(*   SpecSaveConversation  saveConversation and its 429 retry              *)
(*   SpecServer   POST /api/export and the inactivity timer                *)
(*   SpecArtifacts extractInlineArtifacts inside loadThreadFromURL         *)
(*   SpecStatus   runAutoExport from its library scan, with status writes  *)
(* Every specification leaves the variables of the other components alone. *)
(***************************************************************************)
EXTENDS Integers, Sequences, FiniteSets, TLC

\* ------------------------------------------------------------------ bounds
NumKeys == 2
MaxTime == 1
MaxPages == 3

\* ------------------------------------------------------- program constants
MAX_WAIT_ATTEMPTS == 10

Null == "null"

VARIABLES
  \* ConversationSaver
  serverRecord,       \* the thread as the server holds it: EntryKey -> times
  capturedResponses,  \* Map<threadId, ConversationResponse>
  currentThreadId,
  svPc,               \* position inside loadThreadFromURL
  waitAttempts,
  firstPage,          \* flag and cursor of the conversation handed to fetchNextPages
  allEntries,
  seenUuids,
  cursor,
  hasNext,
  pageNum,
  nextPageData,       \* what the last page request produced
  newCount,           \* newEntries.length of the last merged page
  fetchedKeys,        \* uuids of the first page and of every page fetched without error
  threadData,         \* what loadThreadFromURL returned
  observedKeys,       \* per thread: the uuids the handler saw since the buffer was cleared
  addedCount,         \* addedCount of the handler's last merge
  lastHarvest,        \* the flags of the last payload the handler took
  \* DownloadManager
  downloadPromise,        \* 0 (null) or the caller whose call created the promise
  downloadResolve,        \* 0 (null) or the promise the stored resolve settles
  downloadReject,         \* 0 (null) or the promise the stored reject settles
  currentDownloadFilename,
  lastDownloadedFile,
  promises,               \* per creating caller: the state of its promise
  callers,                \* per caller of waitForDownload: where its call stands
  begun,                  \* the downloads the browser has begun and not ended
  lastEvent,              \* the last event that ended a download while a wait was armed
  \* state store (utils.ts)
  doneFile,               \* DoneFile.processed in memory: url -> IncrementalRecord
  doneDisk,               \* the content of done.json
  clock,                  \* new Date(), in milliseconds
  migration,              \* the last migration of a legacy file: what it read and gave
  loaded,                 \* loadDoneFile has returned
  \* runAutoExport
  toProcess,              \* the urls getConversations found due
  limit,
  loadedStore,            \* the store as loadDoneFile returned it to the run
  runI,                   \* the loop index i, counted from 1
  runPc,
  attempts,
  runThreadData,
  caught,                 \* the error the catch clause is handling
  errors,                 \* errors.json
  recs,                   \* per position of toProcess: what happened to the record
  fatalCause,             \* what threw the error caught at part_003:409
  \* getConversations
  conv,                   \* the conversation link under the toProcess filter
  verdict,                \* what the filter answered for it
  \* downloadGeneratedFiles
  candidates,             \* how many candidate artifact URLs the call has
  dlI,                    \* the URL the loop is at, counted from 1
  dlPc,
  localFiles,             \* url -> saved path, Null for a url that is no key
  skippedFiles,
  dlCause,                \* per url: how its pass of the loop ended
  \* files beside the state file
  searchIndex,            \* search-index.json
  skippedLog,             \* skipped.json
  \* scrollToBottomOfConversations
  scanMode,
  scanLimit,
  scrollRounds,
  previousCount,
  stableRounds,
  scPc,
  \* saveConversation
  retryCount,
  svcPc,
  outcomes,               \* how the calls of waitForDownload ended, in order
  thrown,                 \* the error saveConversation threw
  \* server.ts
  isExporting,
  inactivityTimer,        \* 0 (null) or the handle of the timer set last
  sharedBrowser,
  timers,                 \* the timers that are set and have neither fired nor been cleared
  pendingReads,           \* the config reads of resetInactivityTimer under way
  listening,              \* the shared browser carries a 'disconnected' listener
  handlers,               \* per export request: where its handler stands
  responses,              \* per export request: the status it was answered with
  \* inline artifacts
  codeFiles,              \* per EntryKey: the CODE_FILE asset the entry carries
  inlineArtifacts,        \* what extractInlineArtifacts gave loadThreadFromURL
  \* status.json
  status,                 \* the status record written last
  scanWrites              \* the status writes of the scan callback not yet finished

saverVars ==
  <<serverRecord, capturedResponses, currentThreadId, svPc, waitAttempts, firstPage,
    allEntries, seenUuids, cursor, hasNext, pageNum, nextPageData, newCount,
    fetchedKeys, threadData, observedKeys, addedCount,
    lastHarvest>>

dmVars ==
  <<downloadPromise, downloadResolve, downloadReject, currentDownloadFilename,
    lastDownloadedFile, promises, callers, begun, lastEvent>>

storeVars ==
  <<doneFile, doneDisk, clock, migration, loaded>>

\* what a run settles before its loop and never changes in it
runFixed ==
  <<toProcess, limit, loadedStore>>

runVars ==
  <<runFixed, runI, runPc, attempts, runThreadData, caught, errors, recs,
    fatalCause>>

clsVars ==
  <<conv, verdict>>

dlVars ==
  <<candidates, dlI, dlPc, localFiles, skippedFiles, dlCause>>

fileVars ==
  <<searchIndex, skippedLog>>

scrollVars ==
  <<scanMode, scanLimit, scrollRounds, previousCount, stableRounds, scPc>>

retryVars ==
  <<retryCount, svcPc, outcomes, thrown>>

serverVars ==
  <<isExporting, inactivityTimer, sharedBrowser, timers, pendingReads, listening,
    handlers, responses>>

artVars ==
  <<codeFiles, inlineArtifacts>>

statusVars ==
  <<status, scanWrites>>

\* the listing scroll, the export of one conversation through the menu, the
\* server, the inline artifacts of a thread, the status file
extVars ==
  <<scrollVars, retryVars, serverVars, artVars, statusVars>>

notSaver == <<dmVars, storeVars, runVars, clsVars, dlVars, fileVars, extVars>>
notDM == <<saverVars, storeVars, runVars, clsVars, dlVars, fileVars, extVars>>
notStore == <<saverVars, dmVars, runVars, clsVars, dlVars, fileVars, extVars>>
notRun == <<saverVars, dmVars, clsVars, dlVars, fileVars, extVars>>
notRunIndex == <<saverVars, dmVars, clsVars, dlVars, skippedLog, extVars>>
notClassify == <<saverVars, dmVars, storeVars, runVars, dlVars, fileVars, extVars>>
notDL == <<saverVars, storeVars, runVars, clsVars, fileVars, extVars>>
notLog == <<saverVars, dmVars, storeVars, clsVars, dlVars, extVars>>

coreVars ==
  <<saverVars, dmVars, storeVars, runVars, clsVars, dlVars, fileVars, artVars,
    statusVars>>

\* the frames of the run steps that write the status
notRunStatus ==
  <<saverVars, dmVars, clsVars, dlVars, fileVars, scrollVars, retryVars,
    serverVars, artVars, scanWrites>>
notRunIndexStatus ==
  <<saverVars, dmVars, clsVars, dlVars, skippedLog, scrollVars, retryVars,
    serverVars, artVars, scanWrites>>

\* the frame of the saver steps that set inlineArtifacts
notSaverArt ==
  <<dmVars, storeVars, runVars, clsVars, dlVars, fileVars, scrollVars, retryVars,
    serverVars, statusVars, codeFiles>>

notScroll == <<coreVars, retryVars, serverVars>>
notRetry == <<coreVars, scrollVars, serverVars>>
notServer == <<coreVars, scrollVars, retryVars>>

vars ==
  <<saverVars, dmVars, storeVars, runVars, clsVars, dlVars, fileVars, extVars>>

\* ------------------------------------------------------------------ helpers
EntryKeys == 1..NumKeys
Times == 0..MaxTime
ThreadIds == {"t1", "t2"}
LoadedThread == "t1"
Cursors == {"c1"}

RECURSIVE SeqsNoDup(_)
\* the sequences over S that list each element at most once
SeqsNoDup(S) ==
  IF S = {} THEN {<<>>}
  ELSE {<<>>} \cup UNION {{<<x>> \o s : s \in SeqsNoDup(S \ {x})} : x \in S}

Range(s) == {s[i] : i \in 1..Len(s)}

Uuids(entries) == {entries[i].uuid : i \in 1..Len(entries)}

Min(a, b) == IF a < b THEN a ELSE b

Max(a, b) == IF a > b THEN a ELSE b

\* the threads the server is taken to hold: entry k was modified at time k,
\* capped at MaxTime (the last entries share a time), or one step earlier
\* (the first entry then carries no time); odd entries carry
\* updated_datetime, even ones entry_updated_datetime only
ServerRecords ==
  {[k \in EntryKeys |->
      LET t == Min(MaxTime, Max(0, k - skew))
      IN IF k % 2 = 1 THEN <<t, 0>> ELSE <<0, t>>] : skew \in {0, 1}}

\* an entry of the thread as the server sends it: 0 stands for an absent field
EntryOf(k) ==
  [uuid |-> k,
   updated_datetime |-> serverRecord[k][1],
   entry_updated_datetime |-> serverRecord[k][2]]

EntriesOf(ks) == [i \in 1..Len(ks) |-> EntryOf(ks[i])]

KeySeqs == SeqsNoDup(EntryKeys)

\* a body a thread endpoint can answer with: the entries ks of the thread
Payload(ks, more, cur) ==
  [entries |-> EntriesOf(ks), has_next_page |-> more, next_cursor |-> cur]

\* a network response of the page, as the handler sees it: thread "other" is
\* a URL without /rest/thread/; hasEntries is false for a body without an
\* entry sequence (or one that is not JSON)
Response(m, t, he, body) ==
  [method |-> m, thread |-> t, hasEntries |-> he, body |-> body]

\* one response of each kind the handler drops: a POST, a body without
\* entries, the listing endpoint, a URL that is no thread endpoint
DroppedResponses ==
  {Response(kind[1], kind[2], kind[3],
            [entries |-> <<>>, has_next_page |-> FALSE, next_cursor |-> Null]) :
     kind \in {<<"POST", LoadedThread, TRUE>>, <<"GET", LoadedThread, FALSE>>,
               <<"GET", "list_recent", TRUE>>, <<"GET", "other", TRUE>>}}

\* a merge that forgets the uuid test
MergeEntriesNoDedup(existing, incoming) == existing \o incoming

RECURSIVE MergeEntries(_, _)
\* part_005:72-80: push every incoming entry whose uuid is unseen
MergeEntries(existing, incoming) ==
  IF incoming = <<>> THEN existing
  ELSE IF Head(incoming).uuid \in Uuids(existing)
       THEN MergeEntries(existing, Tail(incoming))
       ELSE MergeEntries(Append(existing, Head(incoming)), Tail(incoming))

\* part_005:64
HasCursor(data) == data.has_next_page \/ data.next_cursor # Null

\* part_005:70-89: the buffer `existing` after the handler merged `data` into it
HarvestMerge(existing, data) ==
       [entries |-> MergeEntries(existing.entries, data.entries),
        has_next_page |-> IF HasCursor(data) THEN data.has_next_page
                          ELSE existing.has_next_page,
        next_cursor |-> IF HasCursor(data) THEN data.next_cursor
                        ELSE existing.next_cursor]

\* part_005:53-61: the filter of the response handler
IsThreadDetail(r) ==
  /\ r.method = "GET"
  /\ r.thread \in ThreadIds
  /\ r.hasEntries

\* capturedResponses.has(t)
HasBuffer(t) == t \in DOMAIN capturedResponses

\* capturedResponses.set(t, data)
MapSet(map, t, data) ==
  [x \in DOMAIN map \cup {t} |-> IF x = t THEN data ELSE map[x]]

\* capturedResponses.delete(t)
MapDelete(map, t) == [x \in DOMAIN map \ {t} |-> map[x]]

\* a handler that takes a payload only while loadThreadFromURL polls
ObserveResponseArmed(r) ==
  capturedResponses' =
    IF IsThreadDetail(r) /\ svPc = "poll"
    THEN IF HasBuffer(r.thread)
         THEN MapSet(capturedResponses, r.thread,
                     HarvestMerge(capturedResponses[r.thread], r.body))
         ELSE MapSet(capturedResponses, r.thread, r.body)
    ELSE capturedResponses

\* a handler that buffers the body of every GET on a thread URL
ObserveResponseAnyGet(r) ==
  capturedResponses' =
    IF r.method = "GET" /\ r.thread # "other"
    THEN IF HasBuffer(r.thread)
         THEN MapSet(capturedResponses, r.thread,
                     HarvestMerge(capturedResponses[r.thread], r.body))
         ELSE MapSet(capturedResponses, r.thread, r.body)
    ELSE capturedResponses

\* part_005:49-94
ObserveResponse(r) ==
  capturedResponses' =
    IF IsThreadDetail(r)
    THEN IF HasBuffer(r.thread)
         THEN MapSet(capturedResponses, r.thread,
                     HarvestMerge(capturedResponses[r.thread], r.body))
         ELSE MapSet(capturedResponses, r.thread, r.body)
    ELSE capturedResponses

\* part_005:622-623: the sort key, 0 when the entry carries no time
EntryTime(e) ==
  IF e.updated_datetime # 0 THEN e.updated_datetime ELSE e.entry_updated_datetime

RECURSIVE InsertByTime(_, _)
InsertByTime(sorted, e) ==
  IF sorted = <<>> THEN <<e>>
  ELSE IF EntryTime(Head(sorted)) <= EntryTime(e)
       THEN <<Head(sorted)>> \o InsertByTime(Tail(sorted), e)
       ELSE <<e>> \o sorted

\* a return without the final sort
SortEntriesSkipped(s) == s

RECURSIVE SortEntries(_)
\* part_005:621-625: Array.prototype.sort is stable, comparator timeA - timeB
SortEntries(s) ==
  IF s = <<>> THEN <<>>
  ELSE InsertByTime(SortEntries(SubSeq(s, 1, Len(s) - 1)), s[Len(s)])

\* ---------------------------------------------------------- DownloadManager
NumCallers == 2

Callers == 1..NumCallers
Filenames == {"a.md", "b.md"}
ErrorTexts == {"HTTP 429", "rate limit exceeded", "network failed", Null}
ProgressStates == {"inProgress", "completed", "canceled", "interrupted"}
TriggerKinds == {"none", "ok", "throws"}

Pending == [state |-> "pending", value |-> <<>>, statusCode |-> 0]

\* a caller that has not called waitForDownload yet
NotCalled ==
  [pc |-> "idle", promise |-> 0, owner |-> FALSE, trigger |-> "none",
   triggerRuns |-> 0, outcome |-> Pending]

\* no download has ended while a wait was armed
NoEvent == [state |-> "none", file |-> Null, error |-> Null, armed |-> 0]

\* DownloadManager.ts:21-29
DMInit ==
  /\ downloadPromise = 0
  /\ downloadResolve = 0
  /\ downloadReject = 0
  /\ currentDownloadFilename = Null
  /\ lastDownloadedFile = <<>>
  /\ promises = [c \in Callers |-> Pending]
  /\ callers = [c \in Callers |-> NotCalled]
  /\ begun = {}
  /\ lastEvent = NoEvent

\* path.join(this.downloadPath, filename)
PathJoin(dir, filename) == <<dir, filename>>

DownloadPath == "downloads"

\* DownloadManager.ts:73-74: event.error includes "429" or "rate limit"
IsRateLimit(error) == error \in {"HTTP 429", "rate limit exceeded"}

\* DownloadManager.ts:77-80: the DownloadError of a canceled download
DownloadError(error) ==
  [state |-> "rejected",
   value |-> <<"Download failed", IF error = Null THEN "Unknown error" ELSE error>>,
   statusCode |-> IF IsRateLimit(error) THEN 429 ELSE 0]

\* what a throwing trigger rejects the call with
TriggerError == [state |-> "rejected", value |-> <<"trigger failed">>, statusCode |-> 0]

\* settling a promise does nothing once it is settled
Settle(ps, p, with) ==
  IF ps[p].state = "pending" THEN [ps EXCEPT ![p] = with] ELSE ps

\* DownloadManager.ts:49-51: the browser announces a download; a download is
\* told from the others under way by its suggested filename
DownloadWillBegin ==
  /\ \E f \in Filenames \ begun :
       /\ currentDownloadFilename' = f
       /\ begun' = begun \cup {f}
  /\ UNCHANGED <<downloadPromise, downloadResolve, downloadReject,
                 lastDownloadedFile, promises, callers, lastEvent>>
  /\ UNCHANGED notDM

\* DownloadManager.ts:54-88: a progress event of the download d that has begun
DownloadProgress ==
  \E d \in begun, st \in ProgressStates :
  \E error \in IF st \in {"canceled", "interrupted"} THEN ErrorTexts ELSE {Null} :
    /\ IF st = "completed" /\ currentDownloadFilename # Null
       THEN /\ lastDownloadedFile' = PathJoin(DownloadPath, currentDownloadFilename)
            /\ IF downloadResolve # 0
               THEN /\ promises' =
                         Settle(promises, downloadResolve,
                                [state |-> "resolved",
                                 value |-> PathJoin(DownloadPath, currentDownloadFilename),
                                 statusCode |-> 0])
                    /\ downloadResolve' = 0
                    /\ downloadReject' = 0
               ELSE UNCHANGED <<promises, downloadResolve, downloadReject>>
            /\ currentDownloadFilename' = Null
       ELSE IF st \in {"canceled", "interrupted"}
       THEN /\ IF downloadReject # 0
               THEN /\ promises' = Settle(promises, downloadReject, DownloadError(error))
                    /\ downloadResolve' = 0
                    /\ downloadReject' = 0
               ELSE UNCHANGED <<promises, downloadResolve, downloadReject>>
            /\ currentDownloadFilename' = Null
            /\ UNCHANGED lastDownloadedFile
       ELSE UNCHANGED <<promises, downloadResolve, downloadReject,
                        currentDownloadFilename, lastDownloadedFile>>
    /\ begun' = IF st = "inProgress" THEN begun ELSE begun \ {d}
    /\ lastEvent' =
         IF st = "inProgress" \/ downloadResolve = 0 THEN lastEvent
         ELSE [state |-> st, file |-> d,
               error |-> IF st = "completed" THEN Null ELSE error,
               armed |-> downloadResolve]
    /\ UNCHANGED <<downloadPromise, callers>>
    /\ UNCHANGED notDM

\* DownloadManager.ts:100-102: a promise is outstanding and is returned as it is
JoinInFlight(c, trig) ==
  /\ downloadPromise # 0
  /\ callers' = [callers EXCEPT ![c] =
                   [pc |-> "await", promise |-> downloadPromise, owner |-> FALSE,
                    trigger |-> trig, triggerRuns |-> 0, outcome |-> Pending]]
  /\ UNCHANGED <<downloadPromise, downloadResolve, downloadReject,
                 currentDownloadFilename, lastDownloadedFile, promises>>
  /\ UNCHANGED <<begun, lastEvent>>

\* DownloadManager.ts:104-112: a new promise is armed, then the trigger runs
ArmNew(c, trig) ==
  /\ downloadPromise = 0
  /\ downloadPromise' = c
  /\ downloadResolve' = c
  /\ downloadReject' = c
  /\ callers' = [callers EXCEPT ![c] =
                   [pc |-> IF trig = "none" THEN "await" ELSE "trigger",
                    promise |-> c, owner |-> TRUE, trigger |-> trig,
                    triggerRuns |-> IF trig = "none" THEN 0 ELSE 1,
                    outcome |-> Pending]]
  /\ UNCHANGED <<currentDownloadFilename, lastDownloadedFile, promises>>
  /\ UNCHANGED <<begun, lastEvent>>

\* DownloadManager.ts:97-112: a call of waitForDownload, with or without trigger
WaitForDownload ==
  \E c \in Callers, trig \in TriggerKinds :
    /\ callers[c].pc = "idle"
    /\ JoinInFlight(c, trig) \/ ArmNew(c, trig)
    /\ UNCHANGED notDM

\* DownloadManager.ts:111-113: the trigger of the arming call returns
TriggerReturns ==
  \E c \in Callers :
    /\ callers[c].pc = "trigger"
    /\ callers[c].trigger = "ok"
    /\ callers' = [callers EXCEPT ![c].pc = "await"]
    /\ UNCHANGED <<downloadPromise, downloadResolve, downloadReject,
                   currentDownloadFilename, lastDownloadedFile, promises>>
    /\ UNCHANGED <<begun, lastEvent>>
    /\ UNCHANGED notDM

\* DownloadManager.ts:111 and 116-119: the trigger throws; the catch clears
\* downloadPromise and rethrows
TriggerThrows ==
  \E c \in Callers :
    /\ callers[c].pc = "trigger"
    /\ callers[c].trigger = "throws"
    /\ downloadPromise' = 0
    /\ callers' = [callers EXCEPT ![c].pc = "done", ![c].outcome = TriggerError]
    /\ UNCHANGED <<downloadResolve, downloadReject, currentDownloadFilename,
                   lastDownloadedFile, promises>>
    /\ UNCHANGED <<begun, lastEvent>>
    /\ UNCHANGED notDM

\* DownloadManager.ts:113-119 (the arming call) and 101 (a joined call): the
\* awaited promise has settled and the call ends with its outcome
CallSettles ==
  \E c \in Callers :
    /\ callers[c].pc = "await"
    /\ promises[callers[c].promise].state # "pending"
    /\ callers' = [callers EXCEPT ![c].pc = "done",
                                  ![c].outcome = promises[callers[c].promise]]
    /\ downloadPromise' = IF callers[c].owner THEN 0 ELSE downloadPromise
    /\ UNCHANGED <<downloadResolve, downloadReject, currentDownloadFilename,
                   lastDownloadedFile, promises>>
    /\ UNCHANGED <<begun, lastEvent>>
    /\ UNCHANGED notDM

DMNext ==
  \/ DownloadWillBegin
  \/ DownloadProgress
  \/ WaitForDownload
  \/ TriggerReturns
  \/ TriggerThrows
  \/ CallSettles

\* ---------------------------------------- downloadGeneratedFiles (fileDownloader.ts)
\* candidate artifact URLs are numbered; URL u is fetched by the u-th pass of
\* the loop, which makes the u-th call of waitForDownload
CandidateUrls == 1..candidates

\* error texts of a failed fetch, of fs.writeFile and of page.evaluate
FetchErrors == {"HTTP 404", "Failed to fetch", "ENOSPC", "net::ERR_ABORTED", "download aborted"}

\* fileDownloader.ts:126: e.message includes "net::ERR_ABORTED" or "download"
LooksLikeDownload(message) == message \in {"net::ERR_ABORTED", "download aborted"}

\* what page.evaluate hands back when it does not fail (fileDownloader.ts:62-84)
FetchedKinds == {"media", "notMedia", "empty"}

CouldNotCapture == "Could not capture file via buffer or download event"
DownloadTimeout == "Download timeout"

\* causes for which an artifact yields no local file
FailureCauses == {"fetchError", "notMedia", "empty", "noDownload", "timeout"}

\* a variant of Skip that records nothing
SkipDropped(skipped, u, message) == skipped

\* fileDownloader.ts:144-147: the catch of one pass of the loop
Skip(skipped, u, message) == Append(skipped, [url |-> u, error |-> message])

\* nothing of downloadGeneratedFiles is running
DlIdle ==
  /\ candidates = 0
  /\ dlI = 0
  /\ dlPc = "idle"
  /\ localFiles = [u \in Callers |-> Null]
  /\ skippedFiles = <<>>
  /\ dlCause = [u \in Callers |-> "none"]

\* fileDownloader.ts:14-48: a call with some candidate URLs, nothing done yet
DlInit ==
  /\ candidates \in 0..NumCallers
  /\ dlI = 0
  /\ dlPc = "idle"
  /\ localFiles = [u \in Callers |-> Null]
  /\ skippedFiles = <<>>
  /\ dlCause = [u \in Callers |-> "none"]

\* fileDownloader.ts:16-19: mkdir and DownloadManager.create return
DlSetup ==
  /\ dlPc = "idle"
  /\ dlPc' = "loop"
  /\ UNCHANGED <<candidates, dlI, localFiles, skippedFiles, dlCause>>
  /\ UNCHANGED dmVars
  /\ UNCHANGED notDL

\* fileDownloader.ts:16-19: mkdir or DownloadManager.create throws
DlSetupThrows ==
  /\ dlPc = "idle"
  /\ dlPc' = "threw"
  /\ UNCHANGED <<candidates, dlI, localFiles, skippedFiles, dlCause>>
  /\ UNCHANGED dmVars
  /\ UNCHANGED notDL

\* fileDownloader.ts:51-57: the next URL; waitForDownload() is called with no
\* trigger before the fetch starts
DlNextUrl ==
  /\ dlPc = "loop"
  /\ dlI < candidates
  /\ dlI' = dlI + 1
  /\ JoinInFlight(dlI + 1, "none") \/ ArmNew(dlI + 1, "none")
  /\ dlPc' = "fetch"
  /\ UNCHANGED <<candidates, localFiles, skippedFiles, dlCause>>
  /\ UNCHANGED notDL

\* fileDownloader.ts:59-123 and 135-147: page.evaluate returns data
DlFetched ==
  /\ dlPc = "fetch"
  /\ \E kind \in FetchedKinds :
       IF kind = "media"
       THEN /\ localFiles' = [localFiles EXCEPT ![dlI] = <<"files", dlI>>]
            /\ dlCause' = [dlCause EXCEPT ![dlI] = "saved"]
            /\ UNCHANGED skippedFiles
       ELSE /\ skippedFiles' = Skip(skippedFiles, dlI, CouldNotCapture)
            /\ dlCause' = [dlCause EXCEPT ![dlI] = kind]
            /\ UNCHANGED localFiles
  /\ dlPc' = "loop"
  /\ UNCHANGED <<candidates, dlI>>
  /\ UNCHANGED dmVars
  /\ UNCHANGED notDL

\* fileDownloader.ts:120-134: the fetch reports an error, or page.evaluate or
\* fs.writeFile throws; the inner catch waits for a download when the text
\* looks like one and throws the error on otherwise
DlFetchFails ==
  /\ dlPc = "fetch"
  /\ \E message \in FetchErrors :
       IF LooksLikeDownload(message)
       THEN /\ dlPc' = "race"
            /\ UNCHANGED <<skippedFiles, dlCause>>
       ELSE /\ skippedFiles' = Skip(skippedFiles, dlI, message)
            /\ dlCause' = [dlCause EXCEPT ![dlI] = "fetchError"]
            /\ dlPc' = "loop"
  /\ UNCHANGED <<candidates, dlI, localFiles>>
  /\ UNCHANGED dmVars
  /\ UNCHANGED notDL

\* fileDownloader.ts:57 and 128-143: the call of waitForDownload has ended; a
\* rejection was turned into null by .catch(() => null)
DlRaceDownload ==
  /\ dlPc = "race"
  /\ callers[dlI].pc = "done"
  /\ IF callers[dlI].outcome.state = "resolved"
     THEN /\ localFiles' = [localFiles EXCEPT ![dlI] = callers[dlI].outcome.value]
          /\ dlCause' = [dlCause EXCEPT ![dlI] = "download"]
          /\ UNCHANGED skippedFiles
     ELSE /\ skippedFiles' = Skip(skippedFiles, dlI, CouldNotCapture)
          /\ dlCause' = [dlCause EXCEPT ![dlI] = "noDownload"]
          /\ UNCHANGED localFiles
  /\ dlPc' = "loop"
  /\ UNCHANGED <<candidates, dlI>>
  /\ UNCHANGED dmVars
  /\ UNCHANGED notDL

\* fileDownloader.ts:130 and 144-147: 15 s pass with the promise still pending
DlRaceTimeout ==
  /\ dlPc = "race"
  /\ promises[callers[dlI].promise].state = "pending"
  /\ skippedFiles' = Skip(skippedFiles, dlI, DownloadTimeout)
  /\ dlCause' = [dlCause EXCEPT ![dlI] = "timeout"]
  /\ dlPc' = "loop"
  /\ UNCHANGED <<candidates, dlI, localFiles>>
  /\ UNCHANGED dmVars
  /\ UNCHANGED notDL

\* fileDownloader.ts:150
DlReturn ==
  /\ dlPc = "loop"
  /\ dlI = candidates
  /\ dlPc' = "done"
  /\ UNCHANGED <<candidates, dlI, localFiles, skippedFiles, dlCause>>
  /\ UNCHANGED dmVars
  /\ UNCHANGED notDL

\* the manager and its listeners exist from DownloadManager.create on
\* (fileDownloader.ts:19); events are followed until the call returns
DlListening == dlPc \in {"loop", "fetch", "race"}

DlDownloadWillBegin ==
  /\ DlListening
  /\ DownloadWillBegin

DlDownloadProgress ==
  /\ DlListening
  /\ DownloadProgress

DlNext ==
  \/ DlSetup
  \/ DlSetupThrows
  \/ DlNextUrl
  \/ DlFetched
  \/ DlFetchFails
  \/ DlRaceDownload
  \/ DlRaceTimeout
  \/ DlReturn
  \/ DlDownloadWillBegin
  \/ DlDownloadProgress
  \/ CallSettles

\* ------------------------------------------------ ConversationSaver: actions
NoPage == [entries |-> <<>>, has_next_page |-> FALSE, next_cursor |-> Null]

NoFlags == [has_next_page |-> FALSE, next_cursor |-> Null]

NoResult == [id |-> Null, shared |-> FALSE, conversation |-> NoPage]

\* no payload taken yet
NoHarvest ==
  [thread |-> Null, merged |-> FALSE, has_next_page |-> FALSE, next_cursor |-> Null]

\* the fields of a saver that was just constructed
SaverFresh ==
  /\ capturedResponses = <<>>
  /\ currentThreadId = Null
  /\ svPc = "idle"
  /\ waitAttempts = 0
  /\ firstPage = NoFlags
  /\ allEntries = <<>>
  /\ seenUuids = {}
  /\ cursor = Null
  /\ hasNext = FALSE
  /\ pageNum = 1
  /\ nextPageData = "none"
  /\ newCount = 0
  /\ fetchedKeys = {}
  /\ threadData = NoResult
  /\ observedKeys = [t \in ThreadIds |-> {}]
  /\ addedCount = 0
  /\ lastHarvest = NoHarvest

SaverInit ==
  /\ serverRecord \in ServerRecords
  /\ SaverFresh

\* the locals of fetchNextPages before it is called
ResetLocals ==
  /\ firstPage' = NoFlags
  /\ allEntries' = <<>>
  /\ seenUuids' = {}
  /\ cursor' = Null
  /\ hasNext' = FALSE
  /\ pageNum' = 1
  /\ nextPageData' = "none"
  /\ newCount' = 0
  /\ fetchedKeys' = {}

\* the record a returned ThreadData refers to: the buffer object itself when
\* no pagination ran (part_005:614), the object fetchNextPages built otherwise
ResultConversation ==
  IF threadData.shared THEN capturedResponses[threadData.id]
  ELSE threadData.conversation

\* part_005:49-94 with the bookkeeping of what was seen
Harvest(r) ==
  /\ ObserveResponse(r)
  /\ lastHarvest' =
       IF IsThreadDetail(r)
       THEN [thread |-> r.thread, merged |-> HasBuffer(r.thread),
             has_next_page |-> r.body.has_next_page,
             next_cursor |-> r.body.next_cursor]
       ELSE lastHarvest
  /\ observedKeys' =
       IF IsThreadDetail(r)
       THEN [observedKeys EXCEPT ![r.thread] = @ \cup Uuids(r.body.entries)]
       ELSE observedKeys
  /\ addedCount' =
       IF IsThreadDetail(r) /\ HasBuffer(r.thread)
       THEN Len(capturedResponses'[r.thread].entries)
              - Len(capturedResponses[r.thread].entries)
       ELSE 0

\* the handler runs at the awaits of the saver and between its calls; while
\* fetchNextPages waits for a page the responses of the page are those of
\* its own requests (PageError, PageEmpty, PageMerge), and nothing runs
\* between the end of its loop and the return of loadThreadFromURL
HandlerMayRun == svPc \notin {"fetching", "returned"}

\* part_005:49-94: a record-detail response of the loaded thread arrives
Observe ==
  /\ HandlerMayRun
  /\ \E ks \in KeySeqs, more \in BOOLEAN, cur \in Cursors \cup {Null} :
       Harvest(Response("GET", LoadedThread, TRUE, Payload(ks, more, cur)))
  /\ UNCHANGED <<serverRecord, currentThreadId, svPc, waitAttempts, firstPage,
                 allEntries, seenUuids, cursor, hasNext, pageNum, nextPageData,
                 newCount, fetchedKeys, threadData>>
  /\ UNCHANGED notSaver

\* part_005:49-94: a record-detail response of thread t arrives, whatever
\* thread the saver loaded last
ObserveThread(t) ==
  /\ HandlerMayRun
  /\ \E ks \in KeySeqs, more \in BOOLEAN, cur \in Cursors \cup {Null} :
       Harvest(Response("GET", t, TRUE, Payload(ks, more, cur)))
  /\ UNCHANGED <<serverRecord, currentThreadId, svPc, waitAttempts, firstPage,
                 allEntries, seenUuids, cursor, hasNext, pageNum, nextPageData,
                 newCount, fetchedKeys, threadData>>
  /\ UNCHANGED notSaver

\* part_005:53-61: a response the handler drops arrives
ObserveDropped ==
  /\ HandlerMayRun
  /\ \E r \in DroppedResponses : Harvest(r)
  /\ UNCHANGED <<serverRecord, currentThreadId, svPc, waitAttempts, firstPage,
                 allEntries, seenUuids, cursor, hasNext, pageNum, nextPageData,
                 newCount, fetchedKeys, threadData>>
  /\ UNCHANGED notSaver

\* part_005:566-578: a call of loadThreadFromURL clears the buffer and navigates
LoadStart ==
  /\ svPc \in {"idle", "done", "threw_timeout", "threw_generic"}
  /\ currentThreadId' = LoadedThread
  /\ capturedResponses' = MapDelete(capturedResponses, LoadedThread)
  /\ observedKeys' = [observedKeys EXCEPT ![LoadedThread] = {}]
  /\ addedCount' = 0
  /\ lastHarvest' = NoHarvest
  /\ svPc' = "nav"
  /\ waitAttempts' = 0
  /\ threadData' = NoResult
  /\ inlineArtifacts' = <<>>
  /\ ResetLocals
  /\ UNCHANGED serverRecord
  /\ UNCHANGED notSaverArt

\* part_005:577-589: goto and scrollToBottom end (an error in them is caught)
NavDone ==
  /\ svPc = "nav"
  /\ svPc' = "poll"
  /\ waitAttempts' = 0
  /\ UNCHANGED <<serverRecord, capturedResponses, currentThreadId, firstPage,
                 allEntries, seenUuids, cursor, hasNext, pageNum, nextPageData,
                 newCount, fetchedKeys, threadData, observedKeys, addedCount, lastHarvest>>
  /\ UNCHANGED notSaver

\* part_005:590-594: one round of the wait loop
PollSleep ==
  /\ svPc = "poll"
  /\ ~HasBuffer(currentThreadId)
  /\ waitAttempts < MAX_WAIT_ATTEMPTS
  /\ waitAttempts' = waitAttempts + 1
  /\ UNCHANGED <<serverRecord, capturedResponses, currentThreadId, svPc, firstPage,
                 allEntries, seenUuids, cursor, hasNext, pageNum, nextPageData,
                 newCount, fetchedKeys, threadData, observedKeys, addedCount, lastHarvest>>
  /\ UNCHANGED notSaver

\* part_005:590-604: the wait loop ends: timeout, or go on to the DOM scan
PollExit ==
  /\ svPc = "poll"
  /\ ~(~HasBuffer(currentThreadId) /\ waitAttempts < MAX_WAIT_ATTEMPTS)
  /\ svPc' = IF HasBuffer(currentThreadId) THEN "dom" ELSE "threw_timeout"
  /\ UNCHANGED <<serverRecord, capturedResponses, currentThreadId, waitAttempts,
                 firstPage, allEntries, seenUuids, cursor, hasNext, pageNum,
                 nextPageData, newCount, fetchedKeys, threadData, observedKeys, addedCount, lastHarvest>>
  /\ UNCHANGED notSaver

\* part_005:604: extractUrlsFromDOM fails (page.evaluate throws)
DomFail ==
  /\ svPc = "dom"
  /\ svPc' = "threw_generic"
  /\ UNCHANGED <<serverRecord, capturedResponses, currentThreadId, waitAttempts,
                 firstPage, allEntries, seenUuids, cursor, hasNext, pageNum,
                 nextPageData, newCount, fetchedKeys, threadData, observedKeys, addedCount, lastHarvest>>
  /\ UNCHANGED notSaver

\* a loop condition that forgets the cursor
LoopGoesOnFlagOnly(more, cur) == more

\* part_005:489: the loop condition of fetchNextPages
LoopGoesOn(more, cur) == more /\ cur # Null

\* part_005:555-560 and 621-632: fetchNextPages returns a new object, which
\* loadThreadFromURL sorts and returns
ReturnPaged(entries) ==
  /\ threadData' =
       [id |-> currentThreadId,
        shared |-> FALSE,
        conversation |-> [entries |-> SortEntries(entries),
                          has_next_page |-> FALSE,
                          next_cursor |-> Null]]
  /\ svPc' = "returned"

\* part_005:614-632 without pagination: the buffer object is sorted in place
\* and returned
ReturnUnpaged ==
  /\ threadData' = [id |-> currentThreadId, shared |-> TRUE, conversation |-> NoPage]
  /\ capturedResponses' =
       [capturedResponses EXCEPT ![currentThreadId].entries = SortEntries(@)]
  /\ svPc' = "returned"

\* an entry without a CODE_FILE asset; one with the file f and content of
\* the given length
NoAsset == [kind |-> "none", filename |-> Null, content |-> 0]
CodeFile(f, len) == [kind |-> "CODE_FILE", filename |-> f, content |-> len]

\* the assets the entries of the thread can carry
AssetKinds == {NoAsset, CodeFile("f1", 1), CodeFile("f1", 0)}

RECURSIVE ExtractFrom(_, _, _)
\* part_005:333-412: the loop over the entries; an asset whose filename was
\* seen is skipped, one without content is skipped after its name was noted
ExtractFrom(entries, seenFilenames, artifacts) ==
  IF entries = <<>> THEN artifacts
  ELSE LET asset == codeFiles[Head(entries).uuid] IN
       IF asset.kind # "CODE_FILE" \/ asset.filename \in seenFilenames
       THEN ExtractFrom(Tail(entries), seenFilenames, artifacts)
       ELSE ExtractFrom(Tail(entries), seenFilenames \cup {asset.filename},
                        IF asset.content = 0 THEN artifacts
                        ELSE Append(artifacts, asset))

\* part_005:313-416
ExtractInlineArtifacts(entries) == ExtractFrom(entries, {}, <<>>)

\* part_005:604-618 and 482-489: the DOM scan ends and the inline artifacts of
\* the buffered conversation are extracted; fetchNextPages starts when the
\* buffer carries a flag or a cursor
DomDone ==
  /\ svPc = "dom"
  /\ LET conversation == capturedResponses[currentThreadId] IN
       IF HasCursor(conversation)
       THEN /\ firstPage' = [has_next_page |-> conversation.has_next_page,
                             next_cursor |-> conversation.next_cursor]
            /\ allEntries' = conversation.entries
            /\ seenUuids' = Uuids(conversation.entries)
            /\ fetchedKeys' = Uuids(conversation.entries)
            /\ cursor' = conversation.next_cursor
            /\ hasNext' = conversation.has_next_page
            /\ nextPageData' = "none"
            /\ newCount' = 0
            /\ IF LoopGoesOn(conversation.has_next_page, conversation.next_cursor)
               THEN /\ pageNum' = 2
                    /\ svPc' = "fetching"
                    /\ UNCHANGED threadData
               ELSE /\ pageNum' = 1
                    /\ ReturnPaged(conversation.entries)
            /\ UNCHANGED capturedResponses
       ELSE /\ ReturnUnpaged
            /\ UNCHANGED <<firstPage, allEntries, seenUuids, cursor, hasNext, pageNum,
                           nextPageData, newCount, fetchedKeys>>
  /\ inlineArtifacts' = ExtractInlineArtifacts(capturedResponses[currentThreadId].entries)
  /\ UNCHANGED <<serverRecord, currentThreadId, waitAttempts, observedKeys, addedCount, lastHarvest>>
  /\ UNCHANGED notSaverArt

\* part_005:527-533: the entries of a page whose uuid is unseen, in page order
NewEntries(seen, page) == SelectSeq(page, LAMBDA e : e.uuid \notin seen)

\* new entries put behind the merged ones
PushBehind(entries, newEntries) == entries \o newEntries

\* part_005:536: unshift(...newEntries)
Unshift(entries, newEntries) == newEntries \o entries

\* a page failure that discards the entries merged so far
PageErrorDiscards ==
  /\ svPc = "fetching"
  /\ nextPageData' = "error"
  /\ ReturnPaged(<<>>)
  /\ UNCHANGED <<serverRecord, capturedResponses, currentThreadId, waitAttempts,
                 firstPage, allEntries, seenUuids, cursor, hasNext, pageNum, newCount,
                 fetchedKeys, observedKeys, addedCount, lastHarvest>>
  /\ UNCHANGED notSaver

\* part_005:495-517: the page request fails (HTTP status, fetch or JSON error):
\* the loop breaks and the merged entries are returned
PageError ==
  /\ svPc = "fetching"
  /\ nextPageData' = "error"
  /\ ReturnPaged(allEntries)
  /\ UNCHANGED <<serverRecord, capturedResponses, currentThreadId, waitAttempts,
                 firstPage, allEntries, seenUuids, cursor, hasNext, pageNum, newCount,
                 fetchedKeys, observedKeys, addedCount, lastHarvest>>
  /\ UNCHANGED notSaver

\* part_005:519-522: the page has no entries: break (the handler sees the
\* response too)
PageEmpty ==
  /\ svPc = "fetching"
  /\ \E more \in BOOLEAN, cur \in Cursors \cup {Null} :
       Harvest(Response("GET", currentThreadId, TRUE, Payload(<<>>, more, cur)))
  /\ nextPageData' = "empty"
  /\ ReturnPaged(allEntries)
  /\ UNCHANGED <<serverRecord, currentThreadId, waitAttempts,
                 firstPage, allEntries, seenUuids, cursor, hasNext, pageNum, newCount,
                 fetchedKeys>>
  /\ UNCHANGED notSaver

\* part_005:524-547: a page with entries is merged in front, then the loop
\* condition is evaluated again (the handler sees the response too)
PageMerge ==
  /\ svPc = "fetching"
  /\ \E ks \in KeySeqs, more0 \in BOOLEAN, cur \in Cursors \cup {Null} :
       LET data == Payload(ks, more0, cur)
           newEntries == NewEntries(seenUuids, data.entries)
           merged == IF Len(newEntries) > 0 THEN Unshift(allEntries, newEntries)
                     ELSE allEntries
           more == IF data.has_next_page /\ data.next_cursor = Null THEN FALSE
                   ELSE data.has_next_page
       IN /\ data.entries # <<>>
          /\ Harvest(Response("GET", currentThreadId, TRUE, data))
          /\ nextPageData' = "ok"
          /\ newCount' = Len(newEntries)
          /\ allEntries' = merged
          /\ seenUuids' = seenUuids \cup Uuids(newEntries)
          /\ fetchedKeys' = fetchedKeys \cup Uuids(data.entries)
          /\ hasNext' = more
          /\ cursor' = data.next_cursor
          /\ IF LoopGoesOn(more, data.next_cursor)
             THEN /\ pageNum < MaxPages
                  /\ pageNum' = pageNum + 1
                  /\ UNCHANGED <<svPc, threadData>>
             ELSE /\ UNCHANGED pageNum
                  /\ ReturnPaged(merged)
  /\ UNCHANGED <<serverRecord, currentThreadId, waitAttempts, firstPage>>
  /\ UNCHANGED notSaver

\* the caller takes the ThreadData; the locals of the call are gone
Handoff ==
  /\ svPc = "returned"
  /\ svPc' = "done"
  /\ waitAttempts' = 0
  /\ ResetLocals
  /\ UNCHANGED <<serverRecord, capturedResponses, currentThreadId, threadData,
                 observedKeys, addedCount, lastHarvest>>
  /\ UNCHANGED notSaver

SaverNext ==
  \/ Observe
  \/ ObserveDropped
  \/ LoadStart
  \/ NavDone
  \/ PollSleep
  \/ PollExit
  \/ DomFail
  \/ DomDone
  \/ PageError
  \/ PageEmpty
  \/ PageMerge
  \/ Handoff

\* ------------------------------------------------------ state store (utils.ts)
MaxClock == 2

Urls == {"u1", "u2"}

EmptyMap == <<>>

\* DoneFile.processed[url]
Rec(lu, da) == [lastUpdated |-> lu, downloadedAt |-> da]

\* what done.json can hold: nothing (no file), text that is no JSON, JSON of
\* neither format, the legacy list of urls, the map of records
MissingFile == [kind |-> "missing", urls |-> <<>>, processed |-> EmptyMap]
CorruptFile == [kind |-> "corrupt", urls |-> <<>>, processed |-> EmptyMap]
OtherFile == [kind |-> "other", urls |-> <<>>, processed |-> EmptyMap]
LegacyFile(urls) == [kind |-> "legacy", urls |-> urls, processed |-> EmptyMap]
NewFile(processed) == [kind |-> "new", urls |-> <<>>, processed |-> processed]

\* the record maps an earlier run can have left
EarlierMaps == {EmptyMap, [u \in {"u1"} |-> Rec(1, 1)]}

\* a legacy file lists each url once
DoneDisks ==
  {MissingFile, CorruptFile, OtherFile}
    \cup {LegacyFile(us) : us \in SeqsNoDup(Urls)}
    \cup {NewFile(p) : p \in EarlierMaps}

NoMigration == [urls |-> <<>>, result |-> EmptyMap, disk |-> MissingFile, done |-> FALSE]

\* the store before loadDoneFile is called
StoreIdle ==
  /\ doneFile = EmptyMap
  /\ doneDisk = MissingFile
  /\ clock = 1
  /\ migration = NoMigration
  /\ loaded = FALSE

StoreInit ==
  /\ doneFile = EmptyMap
  /\ doneDisk \in DoneDisks
  /\ clock = 1
  /\ migration = NoMigration
  /\ loaded = FALSE

\* utils.ts:51-53
IsProcessed(df, url) == url \in DOMAIN df

\* the legacy loop with one timestamp for both fields left out of step
MigrateStale(urls, now) == [u \in Range(urls) |-> Rec(0, now)]

\* utils.ts:22-29
Migrate(urls, now) == [u \in Range(urls) |-> Rec(now, now)]

\* utils.ts:9-41: what loadDoneFile returns
LoadResult(file, now) ==
  IF file.kind = "new" THEN file.processed
  ELSE IF file.kind = "legacy" THEN Migrate(file.urls, now)
  ELSE EmptyMap

\* utils.ts:30-31: the file after loadDoneFile
DiskAfterLoad(file, now) ==
  IF file.kind = "legacy" THEN NewFile(Migrate(file.urls, now)) ELSE file

\* utils.ts:9-41
LoadDoneFile ==
  /\ doneFile' = LoadResult(doneDisk, clock)
  /\ doneDisk' = DiskAfterLoad(doneDisk, clock)
  /\ migration' =
       IF doneDisk.kind = "legacy"
       THEN [urls |-> doneDisk.urls, result |-> doneFile', disk |-> doneDisk',
             done |-> TRUE]
       ELSE migration
  /\ loaded' = TRUE
  /\ UNCHANGED clock
  /\ UNCHANGED notStore

\* utils.ts:10-11 and 37-40: readFile throws for a file that is there (it
\* cannot be opened or read just now); the catch returns an empty store and
\* leaves the file as it is
LoadDoneFileFails ==
  /\ doneDisk.kind # "missing"
  /\ doneFile' = EmptyMap
  /\ loaded' = TRUE
  /\ UNCHANGED <<doneDisk, clock, migration>>
  /\ UNCHANGED notStore

\* a variant that stamps the record with the modification time of the thread
MarkProcessedMapStale(df, url, lastUpdated, now) ==
  MapSet(df, url, Rec(lastUpdated, lastUpdated))

\* utils.ts:61-70
MarkProcessedMap(df, url, lastUpdated, now) == MapSet(df, url, Rec(lastUpdated, now))

\* utils.ts:61-70, called with the modification time of a fetched thread
MarkProcessed ==
  /\ loaded
  /\ \E url \in Urls, lu \in 1..clock :
       doneFile' = MarkProcessedMap(doneFile, url, lu, clock)
  /\ UNCHANGED <<doneDisk, clock, migration, loaded>>
  /\ UNCHANGED notStore

\* utils.ts:43-48
SaveDoneFile ==
  /\ loaded
  /\ doneDisk' = NewFile(doneFile)
  /\ UNCHANGED <<doneFile, clock, migration, loaded>>
  /\ UNCHANGED notStore

\* time passes
Tick ==
  /\ clock < MaxClock
  /\ clock' = clock + 1
  /\ UNCHANGED <<doneFile, doneDisk, migration, loaded>>
  /\ UNCHANGED notStore

DoneNext ==
  \/ LoadDoneFile
  \/ LoadDoneFileFails
  \/ MarkProcessed
  \/ SaveDoneFile
  \/ Tick

\* --------------------------------------------------- runAutoExport (part_003)
MAX_ATTEMPTS == 3

MaxBatch == 2
MaxStamp == 3

Undefined == [kind |-> "undefined", entries |-> <<>>]
NullData == [kind |-> "null", entries |-> <<>>]

\* what loadThreadFromURL returns for a thread with the entries ks
ThreadOf(ks) == [kind |-> "data", entries |-> SortEntries(EntriesOf(ks))]

ErrorKinds == {"timeout", "generic", "api"}

\* error.message of what loadThreadFromURL throws
MessageOf(kind) ==
  IF kind = "timeout" THEN "Timeout waiting for thread data API response"
  ELSE IF kind = "api" THEN "Perplexity API Error: SERIALIZATION_ERROR"
  ELSE "Execution context was destroyed"

\* logError that writes nothing
LogErrorDropped(errs, url, error, now) == errs

\* part_003:140-154
LogError(errs, url, error, now) ==
  Append(errs, [url |-> url, error |-> error, timestamp |-> now])

FreshRec ==
  [loads |-> 0, logins |-> 0, fails |-> 0, loginShown |-> FALSE,
   apiError |-> FALSE, captured |-> FALSE, fate |-> "pending"]

\* .sort().pop() over the times kept by filter(Boolean), else the fallback
MaxOf(times, fallback) ==
  IF times = {} THEN fallback
  ELSE CHOOSE x \in times : \A y \in times : y <= x

\* a variant that stores the earliest modification time
LatestUpdatedEarliest(entries, now) ==
  LET times == {EntryTime(entries[k]) : k \in 1..Len(entries)} \ {0}
  IN IF times = {} THEN now ELSE CHOOSE x \in times : \A y \in times : x <= y

\* part_003:386-390
LatestUpdated(entries, now) ==
  MaxOf({EntryTime(entries[k]) : k \in 1..Len(entries)} \ {0}, now)

\* search-index.json: missing, a list of entries, or a file that is there
\* and cannot be read or parsed now (items: the entries it holds all the same)
IndexFile(kind, items) == [kind |-> kind, items |-> items]
NoIndex == IndexFile("missing", <<>>)

\* indexer.ts:124-132: the entry of a thread; content stands for title,
\* snippet and full text, which are computed from the entries and are told
\* apart here by how many entries they were computed from
IndexEntry(id, entries) ==
  [id |-> id,
   date |-> entries[1].updated_datetime,
   content |-> Len(entries)]

\* indexer.ts:134: index.findIndex(item => item.id === id), 0 for -1
FindIndex(items, id) ==
  IF \E i \in 1..Len(items) : items[i].id = id
  THEN CHOOSE i \in 1..Len(items) :
         /\ items[i].id = id
         /\ \A j \in 1..(i - 1) : items[j].id # id
  ELSE 0

\* indexer.ts:6-142: the file after updateSearchIndex(id, conversation, filename)
UpdateSearchIndex(file, id, entries) ==
  LET index == IF file.kind = "list" THEN file.items ELSE <<>>
      at == FindIndex(index, id)
  IN IF entries = <<>> THEN file
     ELSE IndexFile("list",
                    IF at > 0 THEN [index EXCEPT ![at] = IndexEntry(id, entries)]
                    ELSE Append(index, IndexEntry(id, entries)))

\* no file beside the state file has been written
FilesIdle ==
  /\ searchIndex = NoIndex
  /\ skippedLog = <<>>

\* ------------------------------------------ logError, logSkippedFiles (part_003)
MaxLog == 2

\* part_003:141-147 and 166-172: the list the call starts from: the entries of
\* the file, or none when readFile or JSON.parse throws (the catch ignores it)
ReadList(file, readOk) == IF readOk THEN file ELSE <<>>

\* part_003:173-178
LogSkippedFiles(list, threadId, skipped, now) ==
  Append(list, [threadId |-> threadId, skipped |-> skipped, timestamp |-> now])

\* part_003:140-154: a call of logError; the file is read, or cannot be
LogErrorCall ==
  /\ Len(errors) < MaxLog
  /\ \E url \in Urls, kind \in ErrorKinds, readOk \in BOOLEAN :
       errors' = LogError(ReadList(errors, readOk), url, MessageOf(kind), clock)
  /\ UNCHANGED <<runFixed, runI, runPc, attempts, runThreadData, caught, recs, fatalCause>>
  /\ UNCHANGED fileVars
  /\ UNCHANGED notLog

\* part_003:164-179: a call of logSkippedFiles for the skipped files of a thread
LogSkippedCall ==
  /\ Len(skippedLog) < MaxLog
  /\ \E id \in Urls, readOk \in BOOLEAN :
       skippedLog' = LogSkippedFiles(ReadList(skippedLog, readOk), id,
                                     <<[url |-> 1, error |-> CouldNotCapture]>>, clock)
  /\ UNCHANGED runVars
  /\ UNCHANGED searchIndex
  /\ UNCHANGED notLog

LogNext ==
  \/ LogErrorCall
  \/ LogSkippedCall
  \/ Tick

\* the runner outside a run
\* part_003:181-192: the record updateStatus writes
Status(phase) == [phase |-> phase, active |-> phase \notin {"complete", "idle"}]

\* server.ts:66-73: what the server writes before it calls runAutoExport
StartingStatus == [phase |-> "none", active |-> TRUE]

\* server.ts:195: what the server writes when it starts
ServerStarted == [phase |-> "none", active |-> FALSE]

StatusIdle ==
  /\ status = ServerStarted
  /\ scanWrites = 0

RunIdle ==
  /\ toProcess = <<>>
  /\ limit = 0
  /\ loadedStore = EmptyMap
  /\ runI = 1
  /\ runPc = "idle"
  /\ attempts = 0
  /\ runThreadData = Undefined
  /\ caught = Null
  /\ fatalCause = "none"
  /\ errors = <<>>
  /\ recs = <<>>

\* part_003:211-290: the state store is loaded, the library is scanned and the
\* batch is cut to batch_size; a run with nothing to do returns at 280-284
RunInit ==
  /\ clock = 1
  /\ doneDisk \in {NewFile(p) : p \in EarlierMaps} \cup {CorruptFile}
  /\ doneFile = LoadResult(doneDisk, clock)
  /\ migration = NoMigration
  /\ loaded = TRUE
  /\ toProcess \in SeqsNoDup(Urls) \ {<<>>}
  /\ \E batch_size \in 1..MaxBatch : limit = Min(Len(toProcess), batch_size)
  /\ loadedStore = doneFile
  /\ runI = 1
  /\ runPc = "for"
  /\ attempts = 0
  /\ runThreadData = Undefined
  /\ caught = Null
  /\ fatalCause = "none"
  /\ errors = <<>>
  /\ recs = [k \in 1..Len(toProcess) |-> FreshRec]

CurrentUrl == toProcess[runI]

\* part_003:291-298
ForBody ==
  /\ runPc = "for"
  /\ runI <= limit
  /\ attempts' = 0
  /\ runThreadData' = Undefined
  /\ runPc' = "while"
  /\ status' = Status("downloading")
  /\ UNCHANGED <<runFixed, fatalCause, runI, caught, errors, recs>>
  /\ UNCHANGED storeVars
  /\ UNCHANGED notRunStatus

\* part_003:291 and 406-408
ForDone ==
  /\ runPc = "for"
  /\ runI > limit
  /\ runPc' = "complete"
  /\ status' = Status("complete")
  /\ UNCHANGED <<runFixed, fatalCause, runI, attempts, runThreadData, caught, errors, recs>>
  /\ UNCHANGED storeVars
  /\ UNCHANGED notRunStatus

\* part_003:300: the attempts are used up
WhileExit ==
  /\ runPc = "while"
  /\ ~(attempts < MAX_ATTEMPTS)
  /\ runPc' = "after"
  /\ UNCHANGED <<runFixed, fatalCause, runI, attempts, runThreadData, caught, errors, recs>>
  /\ UNCHANGED storeVars
  /\ UNCHANGED notRun

\* part_003:300-304: loadThreadFromURL returns the thread
LoadThreadReturns ==
  /\ runPc = "while"
  /\ attempts < MAX_ATTEMPTS
  /\ attempts' = attempts + 1
  /\ \E ks \in KeySeqs : runThreadData' = ThreadOf(ks)
  /\ recs' = [recs EXCEPT ![runI].loads = @ + 1]
  /\ runPc' = "after"
  /\ UNCHANGED <<runFixed, fatalCause, runI, caught, errors>>
  /\ UNCHANGED storeVars
  /\ UNCHANGED notRun

\* a failed call that is not counted as an attempt
LoadThreadThrowsUncounted ==
  /\ runPc = "while"
  /\ attempts < MAX_ATTEMPTS
  /\ \E kind \in ErrorKinds : caught' = kind
  /\ recs' = [recs EXCEPT ![runI].loads = @ + 1, ![runI].fails = @ + 1]
  /\ runPc' = "catch"
  /\ UNCHANGED <<runFixed, fatalCause, runI, attempts, runThreadData, errors>>
  /\ UNCHANGED storeVars
  /\ UNCHANGED notRun

\* part_003:300-306: loadThreadFromURL throws
LoadThreadThrows ==
  /\ runPc = "while"
  /\ attempts < MAX_ATTEMPTS
  /\ attempts' = attempts + 1
  /\ \E kind \in ErrorKinds : caught' = kind
  /\ recs' = [recs EXCEPT ![runI].loads = @ + 1, ![runI].fails = @ + 1]
  /\ runPc' = "catch"
  /\ UNCHANGED <<runFixed, fatalCause, runI, runThreadData, errors>>
  /\ UNCHANGED storeVars
  /\ UNCHANGED notRun

\* the API error is logged and the loop goes round again
CatchApiErrorRetries ==
  /\ runPc = "catch"
  /\ caught = "api"
  /\ errors' = LogError(errors, CurrentUrl, MessageOf(caught), clock)
  /\ recs' = [recs EXCEPT ![runI].apiError = TRUE]
  /\ runPc' = "while"
  /\ UNCHANGED <<runFixed, fatalCause, runI, attempts, runThreadData, caught>>
  /\ UNCHANGED storeVars
  /\ UNCHANGED notRun

\* part_003:308-312
CatchApiError ==
  /\ runPc = "catch"
  /\ caught = "api"
  /\ errors' = LogError(errors, CurrentUrl, MessageOf(caught), clock)
  /\ runThreadData' = NullData
  /\ recs' = [recs EXCEPT ![runI].apiError = TRUE]
  /\ runPc' = "after"
  /\ UNCHANGED <<runFixed, fatalCause, runI, attempts, caught>>
  /\ UNCHANGED storeVars
  /\ UNCHANGED notRun

\* part_003:316-320 and 330-332: the login page is shown and login is called;
\* when login throws the error leaves the loop for the catch at 409
\* (isLoginPage itself is taken to answer)
Relogin(loginOk) ==
  /\ recs' = [recs EXCEPT ![runI].logins = @ + 1, ![runI].loginShown = TRUE]
  /\ runPc' = IF loginOk THEN "while" ELSE "fatal"
  /\ fatalCause' = IF loginOk THEN fatalCause ELSE "login"
  /\ UNCHANGED <<errors, runThreadData>>

\* part_003:321-325 and 334-338: the last attempt is logged and given up
GiveUp(error) ==
  /\ errors' = LogError(errors, CurrentUrl, error, clock)
  /\ runThreadData' = NullData
  /\ runPc' = "after"
  /\ UNCHANGED <<recs, fatalCause>>

\* part_003:326-327 and 339: sleep, then the next round of the loop
SleepAndRetry ==
  /\ runPc' = "while"
  /\ UNCHANGED <<errors, runThreadData, recs, fatalCause>>

\* part_003:314-328
CatchTimeout ==
  /\ runPc = "catch"
  /\ caught = "timeout"
  /\ \E loginNeeded \in BOOLEAN, loginOk \in BOOLEAN :
       IF loginNeeded THEN Relogin(loginOk)
       ELSE IF attempts >= MAX_ATTEMPTS THEN GiveUp("Timeout waiting for API response")
       ELSE SleepAndRetry
  /\ UNCHANGED <<runFixed, runI, attempts, caught>>
  /\ UNCHANGED storeVars
  /\ UNCHANGED notRun

\* part_003:330-340
CatchOther ==
  /\ runPc = "catch"
  /\ caught = "generic"
  /\ \E loginNeeded \in BOOLEAN, loginOk \in BOOLEAN :
       IF loginNeeded THEN Relogin(loginOk)
       ELSE IF attempts >= MAX_ATTEMPTS THEN GiveUp(MessageOf(caught))
       ELSE SleepAndRetry
  /\ UNCHANGED <<runFixed, runI, attempts, caught>>
  /\ UNCHANGED storeVars
  /\ UNCHANGED notRun

\* part_003:344: no thread data, the loop goes to the next record
SkipRecord ==
  /\ runPc = "after"
  /\ runThreadData.kind # "data"
  /\ recs' = [recs EXCEPT ![runI].fate = "skipped"]
  /\ runI' = runI + 1
  /\ runPc' = "for"
  /\ UNCHANGED <<runFixed, fatalCause, attempts, runThreadData, caught, errors>>
  /\ UNCHANGED storeVars
  /\ UNCHANGED notRun

\* part_003:346-380: the snapshot and the inline artifacts are written and
\* downloadGeneratedFiles has returned; its skipped files are logged
CaptureArtifacts ==
  /\ runPc = "after"
  /\ runThreadData.kind = "data"
  /\ recs' = [recs EXCEPT ![runI].captured = TRUE]
  /\ runPc' = "captured"
  /\ UNCHANGED <<runFixed, fatalCause, runI, attempts, runThreadData, caught, errors>>
  /\ UNCHANGED storeVars
  /\ UNCHANGED notRun

\* a commit that marks the record in memory and does not save the state file
CommitRecordUnsaved ==
  /\ runPc = "captured"
  /\ runThreadData.kind = "data"
  /\ doneFile' = MarkProcessedMap(doneFile, CurrentUrl,
                                  LatestUpdated(runThreadData.entries, clock), clock)
  /\ searchIndex' = UpdateSearchIndex(searchIndex, CurrentUrl, runThreadData.entries)
  /\ recs' = [recs EXCEPT ![runI].fate = "committed"]
  /\ runI' = runI + 1
  /\ runPc' = "for"
  /\ status' = Status("downloading")
  /\ UNCHANGED <<runFixed, fatalCause, attempts, runThreadData, caught, errors>>
  /\ UNCHANGED <<doneDisk, clock, migration, loaded>>
  /\ UNCHANGED notRunIndexStatus

\* part_003:381-403: the document is rendered and written, the record is
\* marked processed, the state file is saved and the search index updated
CommitRecord ==
  /\ runPc = "captured"
  /\ runThreadData.kind = "data"
  /\ doneFile' = MarkProcessedMap(doneFile, CurrentUrl,
                                  LatestUpdated(runThreadData.entries, clock), clock)
  /\ doneDisk' = NewFile(doneFile')
  /\ searchIndex' = UpdateSearchIndex(searchIndex, CurrentUrl, runThreadData.entries)
  /\ recs' = [recs EXCEPT ![runI].fate = "committed"]
  /\ runI' = runI + 1
  /\ runPc' = "for"
  /\ status' = Status("downloading")
  /\ UNCHANGED <<runFixed, fatalCause, attempts, runThreadData, caught, errors>>
  /\ UNCHANGED <<clock, migration, loaded>>
  /\ UNCHANGED notRunIndexStatus

\* part_003:382 and part_004:45: renderConversation throws on an entry it
\* cannot read (entry.query_str missing); the error leaves the loop for the
\* catch at 409, the record is not marked processed
RenderThrows ==
  /\ runPc = "captured"
  /\ runThreadData.kind = "data"
  /\ Len(runThreadData.entries) > 0
  /\ runPc' = "fatal"
  /\ fatalCause' = "render"
  /\ UNCHANGED <<runFixed, runI, attempts, runThreadData, caught, errors, recs>>
  /\ UNCHANGED storeVars
  /\ UNCHANGED notRun

\* part_003:350, 383 and 392: a write to disk fails; the error leaves the
\* loop for the catch at 409
WriteThrows ==
  /\ runPc \in {"after", "captured"}
  /\ runThreadData.kind = "data"
  /\ runPc' = "fatal"
  /\ fatalCause' = "disk"
  /\ UNCHANGED <<runFixed, runI, attempts, runThreadData, caught, errors, recs>>
  /\ UNCHANGED storeVars
  /\ UNCHANGED notRun

RunNext ==
  \/ ForBody
  \/ ForDone
  \/ WhileExit
  \/ LoadThreadReturns
  \/ LoadThreadThrows
  \/ CatchApiError
  \/ CatchTimeout
  \/ CatchOther
  \/ SkipRecord
  \/ CaptureArtifacts
  \/ CommitRecord
  \/ RenderThrows
  \/ WriteThrows
  \/ Tick

\* ------------------------------------------- runAutoExport: the library scan
MaxPending == 1

\* the frame of the scan steps
scanFrame ==
  <<saverVars, dmVars, storeVars, clsVars, dlVars, fileVars, scrollVars, retryVars,
    serverVars, artVars>>

\* part_003:256-265: the scroll loop reports a count; the callback calls
\* updateStatus and does not wait for it
ScanProgress ==
  /\ runPc = "scan"
  /\ scanWrites < MaxPending
  /\ scanWrites' = scanWrites + 1
  /\ UNCHANGED <<runVars, status>>
  /\ UNCHANGED scanFrame

\* part_003:181-192: a write started by the scan callback reaches the file
ScanWriteLands ==
  /\ scanWrites > 0
  /\ scanWrites' = scanWrites - 1
  /\ status' = Status("scanning")
  /\ UNCHANGED runVars
  /\ UNCHANGED scanFrame

\* part_003:256-290: the scan ends; with nothing to do the run writes the idle
\* status and returns, otherwise it writes the initializing status and enters
\* the loop
ScanDone ==
  /\ runPc = "scan"
  /\ IF Len(toProcess) = 0
     THEN /\ status' = Status("idle")
          /\ runPc' = "complete"
     ELSE /\ status' = Status("initializing")
          /\ runPc' = "for"
  /\ UNCHANGED <<runFixed, runI, attempts, runThreadData, caught, errors, recs,
                 fatalCause, scanWrites>>
  /\ UNCHANGED scanFrame

\* part_003:236-266 and 409-413: login or getConversations throws; the catch
\* returns the browser and writes no status
ScanThrows ==
  /\ runPc = "scan"
  /\ runPc' = "fatal"
  /\ fatalCause' = "scan"
  /\ UNCHANGED <<runFixed, runI, attempts, runThreadData, caught, errors, recs,
                 statusVars>>
  /\ UNCHANGED scanFrame

StatusNext ==
  \/ ScanProgress
  \/ ScanWriteLands
  \/ ScanDone
  \/ ScanThrows
  \/ ForBody
  \/ ForDone
  \/ WhileExit
  \/ LoadThreadReturns
  \/ LoadThreadThrows
  \/ CatchApiError
  \/ CatchTimeout
  \/ CatchOther
  \/ SkipRecord
  \/ CaptureArtifacts
  \/ CommitRecord
  \/ RenderThrows
  \/ WriteThrows

\* ------------------------------------------------- getConversations (part_002)
MaxAmount == 2

SECOND == 1000
MINUTE == 60 * SECOND
HOUR == 60 * MINUTE
DAY == 24 * HOUR
BUFFER_MS == 1000

\* the time of the scan: a day and a half after the origin of the clock
ScanTime == DAY + 12 * HOUR + 1234

\* a timestamp text of the library page, by what the parser reads in it
Text(form, amount, unit) == [form |-> form, amount |-> amount, unit |-> unit]

EmptyText == Text("empty", 0, "")
ShortUnits == {"s", "m", "h", "d"}
AgoUnits == {"second", "minute", "hour", "day", "week"}

\* "2h", "2 hours ago", "just now", "now", a date of day n after the origin
\* without and with a time of day (noon), and a text that is none of these;
\* "N months ago" is left out, its length hangs on the calendar
Texts ==
  {EmptyText, Text("just now", 0, ""), Text("now", 0, ""), Text("garbage", 0, "")}
    \cup {Text("short", n, u) : n \in 0..MaxAmount, u \in ShortUnits}
    \cup {Text("ago", n, u) : n \in 0..MaxAmount, u \in AgoUnits}
    \cup {Text("date", n, "") : n \in 0..MaxAmount}
    \cup {Text("datetime", n, "") : n \in 0..MaxAmount}

NoDate == [valid |-> FALSE, time |-> 0]
DateAt(ms) == [valid |-> TRUE, time |-> ms]

\* part_002:46-51 and 61-68: the length of amount units
UnitMs(amount, unit) ==
  IF unit \in {"s", "second"} THEN amount * SECOND
  ELSE IF unit \in {"m", "minute"} THEN amount * MINUTE
  ELSE IF unit \in {"h", "hour"} THEN amount * HOUR
  ELSE IF unit \in {"d", "day"} THEN amount * DAY
  ELSE amount * 7 * DAY

\* part_002:35-87
ParseLibraryTimestamp(text, now) ==
  IF text.form = "empty" THEN NoDate
  ELSE IF text.form \in {"short", "ago"} THEN DateAt(now - UnitMs(text.amount, text.unit))
  ELSE IF text.form \in {"just now", "now"} THEN DateAt(now)
  ELSE IF text.form = "date" THEN DateAt(text.amount * DAY + 23 * HOUR + 59 * MINUTE + 59 * SECOND + 999)
  ELSE IF text.form = "datetime" THEN DateAt(text.amount * DAY + 12 * HOUR)
  ELSE NoDate

\* the comparison made against the time of the last modification
ShouldReDownloadLastUpdated(df, url, libraryTimestamp, now) ==
  IF ~IsProcessed(df, url) THEN TRUE
  ELSE IF libraryTimestamp.form = "empty" THEN FALSE
  ELSE LET libDate == ParseLibraryTimestamp(libraryTimestamp, now)
       IN IF ~libDate.valid THEN FALSE
          ELSE libDate.time > df[url].lastUpdated + BUFFER_MS

\* a variant that takes a text it cannot parse for a change
ShouldReDownloadUnparsedDue(df, url, libraryTimestamp, now) ==
  IF ~IsProcessed(df, url) THEN TRUE
  ELSE IF libraryTimestamp.form = "empty" THEN FALSE
  ELSE LET libDate == ParseLibraryTimestamp(libraryTimestamp, now)
       IN IF ~libDate.valid THEN TRUE
          ELSE libDate.time > df[url].downloadedAt + BUFFER_MS

\* part_002:173-196
ShouldReDownload(df, url, libraryTimestamp, now) ==
  IF ~IsProcessed(df, url) THEN TRUE
  ELSE IF libraryTimestamp.form = "empty" THEN FALSE
  ELSE LET libDate == ParseLibraryTimestamp(libraryTimestamp, now)
       IN IF ~libDate.valid THEN FALSE
          ELSE libDate.time > df[url].downloadedAt + BUFFER_MS

\* part_002:341-348: the toProcess filter
IsDue(df, c, now) ==
  IF ~IsProcessed(df, c.url) THEN TRUE
  ELSE ShouldReDownload(df, c.url, c.libraryTimestamp, now)

NoConv == [url |-> Null, libraryTimestamp |-> EmptyText]

\* outside a library scan
ClassifyIdle ==
  /\ conv = NoConv
  /\ verdict = "none"

\* the times a stored record can carry: whole hours before the scan, and the
\* same less 999, 1000 and 1001 ms
StoredTimes ==
  {ScanTime - h * HOUR - d : h \in 0..(MaxAmount + 1), d \in {0, 999, 1000, 1001}}

\* part_002:341: the store as loaded, holding a record for u1 or none; a
\* record was last modified before it was downloaded
ClassifyInit ==
  /\ clock = ScanTime
  /\ doneFile \in
       {EmptyMap} \cup
       {[u \in {"u1"} |-> Rec(lu, da)] :
          lu \in StoredTimes, da \in StoredTimes}
  /\ \A u \in DOMAIN doneFile : doneFile[u].lastUpdated <= doneFile[u].downloadedAt
  /\ doneDisk = NewFile(doneFile)
  /\ migration = NoMigration
  /\ loaded = TRUE
  /\ ClassifyIdle

\* part_002:341-348: the filter is applied to one link of the library page
Classify ==
  /\ verdict = "none"
  /\ \E url \in Urls, text \in Texts :
       /\ conv' = [url |-> url, libraryTimestamp |-> text]
       /\ verdict' = IF IsDue(doneFile, conv', clock) THEN "due" ELSE "not due"
  /\ UNCHANGED notClassify

ClassifyNext ==
  \/ Classify

\* ------------------------------------- scrollToBottomOfConversations (part_002)
MaxCount == 2
MaxRounds == 102
MaxCalls == 5

MAX_STABLE_ROUNDS == 3
SCROLL_SAFETY_LIMIT == 100

\* the numbers of links the page can report
Counts == 0..MaxCount

ScrollIdle ==
  /\ scanMode = "full"
  /\ scanLimit = 0
  /\ scrollRounds = 0
  /\ previousCount = 0
  /\ stableRounds = 0
  /\ scPc = "idle"

\* ------------------------------------------- saveConversation (the retry loop)
maxRetries == 4

NoError == [state |-> "none", value |-> <<>>, statusCode |-> 0]

\* what page.click rejects with
ClickError == [state |-> "rejected", value |-> <<"click failed">>, statusCode |-> 0]

\* what a resolved waitForDownload gives
Downloaded(f) ==
  [state |-> "resolved", value |-> PathJoin(DownloadPath, f), statusCode |-> 0]

RetryIdle ==
  /\ retryCount = 0
  /\ svcPc = "idle"
  /\ outcomes = <<>>
  /\ thrown = NoError

\* saveConversation.ts:44-45: the export option was found, the loop starts
RetryInit ==
  /\ retryCount = 0
  /\ svcPc = "loop"
  /\ outcomes = <<>>
  /\ thrown = NoError

\* a catch that retries every rate-limited download
RetriesAgainUnbounded(error, count) == error.statusCode = 429

\* saveConversation.ts:55-57: the catch goes on to another attempt; count is
\* retryCount after its increment (an error that is no DownloadError has no
\* statusCode)
RetriesAgain(error, count) == error.statusCode = 429 /\ count < maxRetries

\* saveConversation.ts:47-51: the loop condition holds and waitForDownload is
\* called with the click on the export option as its trigger
CallWaitForDownload ==
  /\ svcPc = "loop"
  /\ retryCount < maxRetries
  /\ Len(outcomes) < MaxCalls
  /\ svcPc' = "waiting"
  /\ UNCHANGED <<retryCount, outcomes, thrown>>
  /\ UNCHANGED notRetry

\* saveConversation.ts:49-54: the download completed; the function returns
DownloadResolved ==
  /\ svcPc = "waiting"
  /\ \E f \in Filenames : outcomes' = Append(outcomes, Downloaded(f))
  /\ svcPc' = "returned"
  /\ UNCHANGED <<retryCount, thrown>>
  /\ UNCHANGED notRetry

\* saveConversation.ts:55-68: waitForDownload rejected with error
Catch(error) ==
  LET count == IF error.statusCode = 429 THEN retryCount + 1 ELSE retryCount
  IN /\ outcomes' = Append(outcomes, error)
     /\ retryCount' = count
     /\ IF RetriesAgain(error, count)
        THEN /\ svcPc' = "cooldown"
             /\ UNCHANGED thrown
        ELSE /\ svcPc' = "threw"
             /\ thrown' = error

\* DownloadManager.ts:68-84 and saveConversation.ts:55-68: the download was
\* canceled or interrupted
DownloadRejected ==
  /\ svcPc = "waiting"
  /\ \E error \in ErrorTexts : Catch(DownloadError(error))
  /\ UNCHANGED notRetry

\* DownloadManager.ts:111, 116-119 and saveConversation.ts:55-68: the click on
\* the export option threw
ExportClickThrows ==
  /\ svcPc = "waiting"
  /\ Catch(TriggerError)
  /\ UNCHANGED notRetry

\* saveConversation.ts:62-64: the cooldown ended and the menu was opened again
CooldownDone ==
  /\ svcPc = "cooldown"
  /\ svcPc' = "loop"
  /\ UNCHANGED <<retryCount, outcomes, thrown>>
  /\ UNCHANGED notRetry

\* saveConversation.ts:63: the click on the menu after the cooldown threw,
\* inside the catch clause
MenuClickThrows ==
  /\ svcPc = "cooldown"
  /\ svcPc' = "threw"
  /\ thrown' = ClickError
  /\ UNCHANGED <<retryCount, outcomes>>
  /\ UNCHANGED notRetry

SaveConversationNext ==
  \/ CallWaitForDownload
  \/ DownloadResolved
  \/ DownloadRejected
  \/ ExportClickThrows
  \/ CooldownDone
  \/ MenuClickThrows

\* ------------------------------------------------------------ server.ts
NumRequests == 2
MaxTimers == 2
MaxReads == 2

Requests == 1..NumRequests
TimerIds == 1..MaxTimers

\* server.ts:16-19
ServerInit ==
  /\ isExporting = FALSE
  /\ inactivityTimer = 0
  /\ sharedBrowser = "none"
  /\ timers = {}
  /\ pendingReads = 0
  /\ listening = FALSE
  /\ handlers = [r \in Requests |-> "idle"]
  /\ responses = [r \in Requests |-> 0]

\* the export handlers that have not ended
Active == {r \in Requests : handlers[r] # "idle"}

\* the calls of runAutoExport that have not returned
Running == {r \in Requests : handlers[r] = "running"}

\* a handler that lets every request in
BusyNever == FALSE

\* server.ts:50
Busy == isExporting

\* server.ts:60-63 and 98-101: clearTimeout(inactivityTimer)
ClearTimer ==
  /\ timers' = timers \ {inactivityTimer}
  /\ inactivityTimer' = 0

\* server.ts:91-94 and 97-103: the finally clause; resetInactivityTimer clears
\* the timer and starts reading the config without waiting for it
Finally ==
  /\ pendingReads < MaxReads
  /\ isExporting' = FALSE
  /\ ClearTimer
  /\ pendingReads' = pendingReads + 1

\* server.ts:50-53: a request while an export is in progress
ExportRejected ==
  \E r \in Requests :
    /\ handlers[r] = "idle"
    /\ Busy
    /\ responses' = [responses EXCEPT ![r] = 429]
    /\ UNCHANGED <<isExporting, inactivityTimer, sharedBrowser, timers,
                   pendingReads, listening, handlers>>
    /\ UNCHANGED notServer

\* server.ts:50-66: a request is let in, answered, the timer is cleared and
\* the first status write is started
ExportAccepted ==
  \E r \in Requests :
    /\ handlers[r] = "idle"
    /\ ~Busy
    /\ isExporting' = TRUE
    /\ responses' = [responses EXCEPT ![r] = 200]
    /\ ClearTimer
    /\ handlers' = [handlers EXCEPT ![r] = "status"]
    /\ UNCHANGED <<sharedBrowser, pendingReads, listening>>
    /\ UNCHANGED notServer

\* server.ts:66-86: the status is written; a disconnected browser is dropped
\* and runAutoExport is called
RunStarts ==
  \E r \in Requests :
    /\ handlers[r] = "status"
    /\ handlers' = [handlers EXCEPT ![r] = "running"]
    /\ sharedBrowser' = IF sharedBrowser = "disconnected" THEN "none" ELSE sharedBrowser
    /\ UNCHANGED <<isExporting, inactivityTimer, timers, pendingReads, listening,
                   responses>>
    /\ UNCHANGED notServer

\* server.ts:66 and 89-94: the status write throws
StatusWriteThrows ==
  \E r \in Requests :
    /\ handlers[r] = "status"
    /\ handlers' = [handlers EXCEPT ![r] = "idle"]
    /\ Finally
    /\ UNCHANGED <<sharedBrowser, listening, responses>>
    /\ UNCHANGED notServer

\* server.ts:86-94: runAutoExport returns the browser it kept open, or none
RunReturns ==
  \E r \in Requests, browser \in {"open", "none"} :
    /\ handlers[r] = "running"
    /\ handlers' = [handlers EXCEPT ![r] = "idle"]
    /\ sharedBrowser' = browser
    /\ listening' = (listening /\ sharedBrowser = "open" /\ browser = "open")
    /\ Finally
    /\ UNCHANGED responses
    /\ UNCHANGED notServer

\* server.ts:86 and 89-94: runAutoExport throws
RunThrows ==
  \E r \in Requests :
    /\ handlers[r] = "running"
    /\ handlers' = [handlers EXCEPT ![r] = "idle"]
    /\ Finally
    /\ UNCHANGED <<sharedBrowser, listening, responses>>
    /\ UNCHANGED notServer

\* server.ts:103-137: the config is read; with keep_browser_open and a timeout
\* a timer is set and its handle stored, and a connected browser gets a
\* listener
ConfigRead ==
  /\ pendingReads > 0
  /\ pendingReads' = pendingReads - 1
  /\ \E keep \in BOOLEAN :
       IF keep
       THEN /\ \E id \in TimerIds \ (timers \cup {inactivityTimer}) :
                 /\ inactivityTimer' = id
                 /\ timers' = timers \cup {id}
            /\ listening' = (listening \/ sharedBrowser = "open")
       ELSE UNCHANGED <<inactivityTimer, timers, listening>>
  /\ UNCHANGED <<isExporting, sharedBrowser, handlers, responses>>
  /\ UNCHANGED notServer

\* server.ts:103-104 and 138-140: the read or the parse fails
ConfigReadFails ==
  /\ pendingReads > 0
  /\ pendingReads' = pendingReads - 1
  /\ UNCHANGED <<isExporting, inactivityTimer, sharedBrowser, timers, listening,
                 handlers, responses>>
  /\ UNCHANGED notServer

\* server.ts:111-122: a timer that is set expires; its callback closes the
\* shared browser
TimerFires ==
  /\ \E id \in timers : timers' = timers \ {id}
  /\ sharedBrowser' = "none"
  /\ listening' = FALSE
  /\ UNCHANGED <<isExporting, inactivityTimer, pendingReads, handlers, responses>>
  /\ UNCHANGED notServer

\* server.ts:125-135: the browser goes away; the listener, where one is
\* attached, drops the browser and clears the timer
BrowserDisconnects ==
  /\ sharedBrowser = "open"
  /\ IF listening
     THEN /\ sharedBrowser' = "none"
          /\ ClearTimer
     ELSE /\ sharedBrowser' = "disconnected"
          /\ UNCHANGED <<inactivityTimer, timers>>
  /\ listening' = FALSE
  /\ UNCHANGED <<isExporting, pendingReads, handlers, responses>>
  /\ UNCHANGED notServer

ServerNext ==
  \/ ExportRejected
  \/ ExportAccepted
  \/ RunStarts
  \/ StatusWriteThrows
  \/ RunReturns
  \/ RunThrows
  \/ ConfigRead
  \/ ConfigReadFails
  \/ TimerFires
  \/ BrowserDisconnects

\* a thread without inline artifacts
ArtIdle ==
  /\ codeFiles = [k \in EntryKeys |-> NoAsset]
  /\ inlineArtifacts = <<>>

ExtIdle ==
  /\ ScrollIdle
  /\ RetryIdle
  /\ ServerInit
  /\ ArtIdle

\* part_002:92-103: the call with its locals set
ScrollInit ==
  /\ scanMode \in {"full", "top"}
  /\ scanLimit \in 1..(MaxCount + 1)
  /\ scrollRounds = 0
  /\ previousCount = 0
  /\ stableRounds = 0
  /\ scPc = "loop"

\* a loop that has no safety limit
ScrollStopsUncapped(stable, mode, currentCount, lim, rounds) ==
  \/ stable >= MAX_STABLE_ROUNDS
  \/ mode = "top" /\ currentCount >= lim

\* part_002:149-162: the three breaks at the end of a round
ScrollStops(stable, mode, currentCount, lim, rounds) ==
  \/ stable >= MAX_STABLE_ROUNDS
  \/ mode = "top" /\ currentCount >= lim
  \/ rounds > SCROLL_SAFETY_LIMIT

\* part_002:105-163: one round: scroll, sleep, count, compare, break or go on
ScrollRound ==
  /\ scPc = "loop"
  /\ scrollRounds < MaxRounds
  /\ \E currentCount \in Counts :
       LET stable == IF currentCount = previousCount THEN stableRounds + 1 ELSE 0
       IN /\ scrollRounds' = scrollRounds + 1
          /\ stableRounds' = stable
          /\ previousCount' = currentCount
          /\ scPc' = IF ScrollStops(stable, scanMode, currentCount, scanLimit,
                                    scrollRounds + 1)
                     THEN "done" ELSE "loop"
  /\ UNCHANGED <<scanMode, scanLimit>>
  /\ UNCHANGED notScroll

\* part_002:108-137: page.evaluate rejects (the page went away): the call throws
ScrollEvaluateThrows ==
  /\ scPc = "loop"
  /\ scrollRounds < MaxRounds
  /\ scrollRounds' = scrollRounds + 1
  /\ scPc' = "threw"
  /\ UNCHANGED <<scanMode, scanLimit, previousCount, stableRounds>>
  /\ UNCHANGED notScroll

ScrollNext ==
  \/ ScrollRound
  \/ ScrollEvaluateThrows

\* -------------------------------------------------------------- specifications
InitSaver ==
  /\ SaverInit
  /\ DMInit
  /\ StoreIdle
  /\ RunIdle
  /\ ClassifyIdle
  /\ DlIdle
  /\ FilesIdle
  /\ ExtIdle
  /\ StatusIdle

SpecSaver == InitSaver /\ [][SaverNext]_vars

\* the handler alone, under responses for every thread
ObserveNext ==
  \/ \E t \in ThreadIds : ObserveThread(t)
  \/ ObserveDropped

SpecObserve == InitSaver /\ [][ObserveNext]_vars

\* the saver as constructed, for a thread the other components do not read
SaverIdle ==
  /\ SaverInit
  /\ serverRecord = CHOOSE r \in ServerRecords : TRUE

InitDM ==
  /\ SaverIdle
  /\ DMInit
  /\ StoreIdle
  /\ RunIdle
  /\ ClassifyIdle
  /\ DlIdle
  /\ FilesIdle
  /\ ExtIdle
  /\ StatusIdle

SpecDM == InitDM /\ [][DMNext]_vars

\* the steps of waitForDownload itself are taken when they can be: an awaited
\* trigger returns or throws and a call whose promise has settled continues.
\* The browser owes no event: DownloadWillBegin and DownloadProgress are not fair
SpecDMFair ==
  /\ InitDM
  /\ [][DMNext]_vars
  /\ WF_vars(TriggerReturns)
  /\ WF_vars(TriggerThrows)
  /\ WF_vars(CallSettles)

InitDone ==
  /\ SaverIdle
  /\ DMInit
  /\ StoreInit
  /\ RunIdle
  /\ ClassifyIdle
  /\ DlIdle
  /\ FilesIdle
  /\ ExtIdle
  /\ StatusIdle

SpecDone == InitDone /\ [][DoneNext]_vars

InitRun ==
  /\ SaverInit
  /\ DMInit
  /\ RunInit
  /\ ClassifyIdle
  /\ DlIdle
  /\ FilesIdle
  /\ ExtIdle
  /\ status = Status("initializing")
  /\ scanWrites = 0

SpecRun == InitRun /\ [][RunNext]_vars

\* the steps of a run, the clock standing still
RetryNext ==
  \/ ForBody
  \/ ForDone
  \/ WhileExit
  \/ LoadThreadReturns
  \/ LoadThreadThrows
  \/ CatchApiError
  \/ CatchTimeout
  \/ CatchOther
  \/ SkipRecord
  \/ CaptureArtifacts
  \/ CommitRecord
  \/ RenderThrows
  \/ WriteThrows

\* the run is a sequential program whose awaited calls all return or throw
\* (loadThreadFromURL gives up after its polls, login and page.goto carry
\* timeouts): a step that can be taken is taken
SpecRunFair == InitRun /\ [][RetryNext]_vars /\ WF_vars(RetryNext)

InitDL ==
  /\ SaverIdle
  /\ DMInit
  /\ StoreIdle
  /\ RunIdle
  /\ ClassifyIdle
  /\ DlInit
  /\ FilesIdle
  /\ ExtIdle
  /\ StatusIdle

SpecDL == InitDL /\ [][DlNext]_vars

\* threads whose entries carry any of the times 1..MaxStamp in either field,
\* in both, or in none
StampRecords == [EntryKeys -> (0..MaxStamp) \X (0..MaxStamp)]

\* part_003:300-304: a run of one due record at the point where
\* loadThreadFromURL has just returned its thread
InitLatest ==
  /\ serverRecord \in StampRecords
  /\ SaverFresh
  /\ DMInit
  /\ ClassifyIdle
  /\ DlIdle
  /\ FilesIdle
  /\ ExtIdle
  /\ status = Status("downloading")
  /\ scanWrites = 0
  /\ clock = 1
  /\ doneDisk \in {NewFile(p) : p \in EarlierMaps}
  /\ doneFile = doneDisk.processed
  /\ migration = NoMigration
  /\ loaded = TRUE
  /\ toProcess = <<"u1">>
  /\ limit = 1
  /\ loadedStore = doneFile
  /\ runI = 1
  /\ runPc = "after"
  /\ attempts = 1
  /\ \E ks \in KeySeqs : runThreadData = ThreadOf(ks)
  /\ caught = Null
  /\ fatalCause = "none"
  /\ errors = <<>>
  /\ recs = <<[FreshRec EXCEPT !.loads = 1]>>

\* the rest of the pass of the loop for that record
LatestNext ==
  \/ CaptureArtifacts
  \/ CommitRecord
  \/ ForDone
  \/ Tick

SpecLatest == InitLatest /\ [][LatestNext]_vars

\* an entry that an earlier commit of the thread id left in the index
OldEntry(id) == [id |-> id, date |-> 0, content |-> 0]

\* what search-index.json can be when a commit comes to it: each thread id
\* has at most one entry, written by an earlier commit
IndexFiles ==
  {NoIndex}
    \cup {IndexFile("list", [i \in 1..Len(ids) |-> OldEntry(ids[i])]) :
            ids \in SeqsNoDup(Urls)}
    \cup {IndexFile("unreadable", [i \in 1..Len(ids) |-> OldEntry(ids[i])]) :
            ids \in SeqsNoDup(Urls)}

\* part_003:300-304: a run of one due record at the point where
\* loadThreadFromURL has just returned its thread, over any search index
InitIndex ==
  /\ SaverInit
  /\ DMInit
  /\ ClassifyIdle
  /\ DlIdle
  /\ searchIndex \in IndexFiles
  /\ skippedLog = <<>>
  /\ clock = 1
  /\ doneDisk \in {NewFile(p) : p \in EarlierMaps}
  /\ doneFile = doneDisk.processed
  /\ migration = NoMigration
  /\ loaded = TRUE
  /\ toProcess \in {<<u>> : u \in Urls}
  /\ limit = 1
  /\ loadedStore = doneFile
  /\ runI = 1
  /\ runPc = "after"
  /\ attempts = 1
  /\ \E ks \in KeySeqs : runThreadData = ThreadOf(ks)
  /\ caught = Null
  /\ fatalCause = "none"
  /\ errors = <<>>
  /\ recs = <<[FreshRec EXCEPT !.loads = 1]>>
  /\ ExtIdle
  /\ status = Status("downloading")
  /\ scanWrites = 0

IndexNext ==
  \/ CaptureArtifacts
  \/ CommitRecord
  \/ ForDone

SpecIndex == InitIndex /\ [][IndexNext]_vars

\* no log has been written yet
InitLog ==
  /\ SaverIdle
  /\ DMInit
  /\ StoreIdle
  /\ RunIdle
  /\ ClassifyIdle
  /\ DlIdle
  /\ FilesIdle
  /\ ExtIdle
  /\ StatusIdle

SpecLog == InitLog /\ [][LogNext]_vars

InitClassify ==
  /\ SaverIdle
  /\ DMInit
  /\ RunIdle
  /\ ClassifyInit
  /\ DlIdle
  /\ FilesIdle
  /\ ExtIdle
  /\ StatusIdle

SpecClassify == InitClassify /\ [][ClassifyNext]_vars

InitScroll ==
  /\ SaverIdle
  /\ DMInit
  /\ StoreIdle
  /\ RunIdle
  /\ ClassifyIdle
  /\ DlIdle
  /\ FilesIdle
  /\ ScrollInit
  /\ RetryIdle
  /\ ServerInit
  /\ ArtIdle
  /\ StatusIdle

SpecScroll == InitScroll /\ [][ScrollNext]_vars

\* a round that can be taken is taken
SpecScrollFair == SpecScroll /\ WF_vars(ScrollNext)

InitSaveConversation ==
  /\ SaverIdle
  /\ DMInit
  /\ StoreIdle
  /\ RunIdle
  /\ ClassifyIdle
  /\ DlIdle
  /\ FilesIdle
  /\ ScrollIdle
  /\ RetryInit
  /\ ServerInit
  /\ ArtIdle
  /\ StatusIdle

SpecSaveConversation == InitSaveConversation /\ [][SaveConversationNext]_vars

InitServer ==
  /\ SaverIdle
  /\ DMInit
  /\ StoreIdle
  /\ RunIdle
  /\ ClassifyIdle
  /\ DlIdle
  /\ FilesIdle
  /\ ScrollIdle
  /\ RetryIdle
  /\ ServerInit
  /\ ArtIdle
  /\ StatusIdle

SpecServer == InitServer /\ [][ServerNext]_vars

\* a run from its library scan on, with at most one thread due; the status
\* file holds what the server wrote last
InitStatus ==
  /\ SaverInit
  /\ DMInit
  /\ ClassifyIdle
  /\ DlIdle
  /\ FilesIdle
  /\ ExtIdle
  /\ clock = 1
  /\ doneDisk \in {NewFile(p) : p \in EarlierMaps}
  /\ doneFile = doneDisk.processed
  /\ migration = NoMigration
  /\ loaded = TRUE
  /\ toProcess \in {<<>>} \cup {<<u>> : u \in Urls}
  /\ limit = Len(toProcess)
  /\ loadedStore = doneFile
  /\ runI = 1
  /\ runPc = "scan"
  /\ attempts = 0
  /\ runThreadData = Undefined
  /\ caught = Null
  /\ fatalCause = "none"
  /\ errors = <<>>
  /\ recs = [k \in 1..Len(toProcess) |-> FreshRec]
  /\ status \in {StartingStatus, ServerStarted}
  /\ scanWrites = 0

SpecStatus == InitStatus /\ [][StatusNext]_vars

\* the saver on a thread whose entries carry CODE_FILE assets
InitArtifacts ==
  /\ SaverInit
  /\ DMInit
  /\ StoreIdle
  /\ RunIdle
  /\ ClassifyIdle
  /\ DlIdle
  /\ FilesIdle
  /\ ScrollIdle
  /\ RetryIdle
  /\ ServerInit
  /\ codeFiles \in [EntryKeys -> AssetKinds]
  /\ inlineArtifacts = <<>>
  /\ StatusIdle

SpecArtifacts == InitArtifacts /\ [][SaverNext]_vars

\* ------------------------------------------------- ConversationSaver: claims
NoDuplicates(entries) == Cardinality(Uuids(entries)) = Len(entries)

\* the same entries, each as often, in any order
SameEntries(a, b) ==
  /\ Len(a) = Len(b)
  /\ \A x \in Range(a) \cup Range(b) :
       Cardinality({i \in 1..Len(a) : a[i] = x}) = Cardinality({i \in 1..Len(b) : b[i] = x})

\* C1: the buffer of a thread lists exactly the uuids of the record-detail
\* payloads the handler saw for it since the buffer was cleared, each once
C1_BufferIsUnionWithoutDuplicates ==
  \A t \in ThreadIds :
    IF HasBuffer(t)
    THEN /\ Uuids(capturedResponses[t].entries) = observedKeys[t]
         /\ NoDuplicates(capturedResponses[t].entries)
    ELSE observedKeys[t] = {}

\* a later payload was merged into a buffer that held entries already
C1_Witness ==
  /\ HasBuffer(LoadedThread)
  /\ addedCount = 1
  /\ Len(capturedResponses[LoadedThread].entries) = 2

StrictlyAscending(entries) ==
  \A i \in 1..(Len(entries) - 1) : EntryTime(entries[i]) < EntryTime(entries[i + 1])

NonDecreasing(entries) ==
  \A i \in 1..(Len(entries) - 1) : EntryTime(entries[i]) <= EntryTime(entries[i + 1])

C4_StopsAfterStalePage ==
  (svPc = "fetching" /\ nextPageData = "ok") => newCount > 0

\* C5: a first page with has_next_page and no cursor leads to no page
\* request, and the record returned holds exactly the entries of that page
C5_NullCursorFirstPage ==
  (svPc = "returned" /\ firstPage.has_next_page /\ firstPage.next_cursor = Null)
    => /\ pageNum = 1
       /\ nextPageData = "none"
       /\ SameEntries(ResultConversation.entries,
                      capturedResponses[currentThreadId].entries)

\* such a first page with two entries was returned
C5_Witness ==
  /\ svPc = "returned"
  /\ firstPage.has_next_page
  /\ firstPage.next_cursor = Null
  /\ Len(ResultConversation.entries) = 2

\* C6: after a failed page request loadThreadFromURL returns (it does not
\* throw) and the record holds each entry of the first page and of the pages
\* fetched before the failure once
C6_PageFailureKeepsMerged ==
  nextPageData = "error"
    => /\ svPc = "returned"
       /\ Uuids(ResultConversation.entries) = fetchedKeys
       /\ NoDuplicates(ResultConversation.entries)

\* the request for page 3 failed after page 2 had added an entry
C6_Witness ==
  /\ nextPageData = "error"
  /\ pageNum = 3
  /\ newCount = 1
  /\ Len(ResultConversation.entries) = 2

\* C3 as stated: a call made while an earlier call is still unsettled holds
\* the promise of that call (no second one is created), and the two calls
\* end with the same outcome
C3_SecondCallSharesOutcome ==
  \A a, b \in Callers :
    (/\ callers[a].owner
     /\ ~callers[b].owner
     /\ callers[b].pc # "idle"
     /\ callers[b].promise = callers[a].promise)
      => /\ callers[b].promise = a
         /\ (callers[a].pc = "done" /\ callers[b].pc = "done")
              => callers[a].outcome = callers[b].outcome

\* ----------------------------------------------------- runAutoExport: claims
ErrorCount(url) == Cardinality({k \in 1..Len(errors) : errors[k].url = url})

\* the record of url in a store, as a set: empty when there is none
StoredRecord(df, url) == IF url \in DOMAIN df THEN {df[url]} ELSE {}

\* every attempt on the record at position k failed with a timeout or another
\* error while no login page was shown, and the last failure has been handled
TransientOnly(k) ==
  /\ recs[k].fails = MAX_ATTEMPTS
  /\ ~recs[k].loginShown
  /\ ~recs[k].apiError
  /\ ~(runI = k /\ runPc = "catch")

\* the record at position k has been left behind without thread data
Skipped(k) == recs[k].fate = "skipped"

\* C7: a record whose three attempts all failed with transient errors, no
\* login page shown, has exactly one entry in the error log, its record in
\* the store (in memory and on disk) is what it was when the run began, and
\* the run goes on: it is about to leave the record or has left it for the
\* next position of the batch
C7_TransientFailuresSkipAndLogOnce ==
  \A k \in 1..Len(toProcess) :
    TransientOnly(k) =>
      /\ ErrorCount(toProcess[k]) = 1
      /\ StoredRecord(doneFile, toProcess[k]) = StoredRecord(loadedStore, toProcess[k])
      /\ StoredRecord(doneDisk.processed, toProcess[k]) = StoredRecord(loadedStore, toProcess[k])
      /\ IF runI = k THEN runPc = "after" ELSE runI > k /\ Skipped(k)

C7_Witness ==
  \E k \in 1..Len(toProcess) :
    /\ TransientOnly(k)
    /\ Skipped(k)
    /\ runI = k + 1
    /\ k + 1 <= Len(toProcess)
    /\ recs[k + 1].loads > 0

\* C10 as stated: every record the run has skipped has an entry in the error
\* log
C10_EverySkipIsLogged ==
  \A k \in 1..Len(toProcess) : Skipped(k) => ErrorCount(toProcess[k]) >= 1

C22_DownloadedAtNeverDecreases ==
  [][\A u \in Urls :
       (IsProcessed(doneDisk.processed, u) /\ IsProcessed(doneDisk'.processed, u)) =>
         doneDisk.processed[u].downloadedAt <= doneDisk'.processed[u].downloadedAt]_vars

\* a migrated legacy file whose record for u1 was committed again at the end
\* of the clock and saved
C22_Witness ==
  /\ migration.done
  /\ "u1" \in Range(migration.urls)
  /\ doneDisk.kind = "new"
  /\ IsProcessed(doneDisk.processed, "u1")
  /\ migration.result["u1"].downloadedAt < doneDisk.processed["u1"].downloadedAt

\* C23 as stated: a url that the state file holds a record for is held by the
\* state file after every later step, also in a run that could not read it
C23_RecordsAreNeverRemoved ==
  [][\A u \in Urls :
       IsProcessed(doneDisk.processed, u) => IsProcessed(doneDisk'.processed, u)]_vars

\* ------------------------------------------------------ getConversations: claims
Classified == verdict # "none"

HasRecord == IsProcessed(doneFile, conv.url)

ParsedTime == ParseLibraryTimestamp(conv.libraryTimestamp, clock)

TwoHoursAgo == Text("ago", 2, "hour")

Unparseable == ~ParsedTime.valid

\* C19: a link that has a record and whose timestamp text is empty or cannot
\* be parsed is classified not due, and the filter answers for it
C19_UnparseableNotDue ==
  (Classified /\ HasRecord /\ Unparseable) => verdict = "not due"

\* a recorded link with a text the parser cannot read, downloaded hours ago
C19_Witness ==
  /\ Classified
  /\ HasRecord
  /\ conv.libraryTimestamp.form = "garbage"
  /\ doneFile[conv.url].downloadedAt < clock - HOUR
  /\ verdict = "not due"

\* the run has left its loop with records of the batch not yet attempted
EndedEarly ==
  /\ runPc = "fatal"
  /\ \E k \in 1..limit : recs[k].loads = 0

\* C11 as stated: the run ends early only on a local fatal error (a failed
\* write to disk), never on a failed re-login of the retry loop or on a
\* record that cannot be rendered
C11_OnlyLocalFatalEndsRun ==
  EndedEarly => fatalCause = "disk"

\* C12: a record one of whose attempts failed with an API error is given up
\* at once: the loop is left for the skip without another attempt, the error
\* log holds exactly one entry for it, carrying the message of the error, and
\* its record in the store (in memory and on disk) is what it was when the
\* run began
C12_ApiErrorSkipsAtOnce ==
  \A k \in 1..Len(toProcess) :
    recs[k].apiError =>
      /\ ErrorCount(toProcess[k]) = 1
      /\ \E n \in 1..Len(errors) :
           /\ errors[n].url = toProcess[k]
           /\ errors[n].error = MessageOf("api")
      /\ StoredRecord(doneFile, toProcess[k]) = StoredRecord(loadedStore, toProcess[k])
      /\ StoredRecord(doneDisk.processed, toProcess[k]) = StoredRecord(loadedStore, toProcess[k])
      /\ IF runI = k THEN runPc = "after" /\ runThreadData = NullData
         ELSE runI > k /\ Skipped(k)

C12_Witness ==
  \E k \in 1..Len(toProcess) :
    /\ recs[k].apiError
    /\ recs[k].loads = 1
    /\ Skipped(k)
    /\ runI = k + 1
    /\ k + 1 <= Len(toProcess)
    /\ recs[k + 1].loads > 0

\* the retry loop of the current record is running
InRetryLoop == runPc \in {"while", "catch"}

\* for every record: at most MAX_ATTEMPTS calls of loadThreadFromURL and of
\* login, a login only after a failed call
AttemptsBounded ==
  /\ attempts <= MAX_ATTEMPTS
  /\ \A k \in 1..Len(toProcess) :
       /\ recs[k].loads <= MAX_ATTEMPTS
       /\ recs[k].logins <= MAX_ATTEMPTS
       /\ recs[k].logins <= recs[k].fails
  /\ InRetryLoop => recs[runI].loads = attempts

\* C13: the retry loop is bounded for every mix of failures, a login page
\* after every attempt included, and it is always left
C13_RetryLoopBounded ==
  /\ []AttemptsBounded
  /\ InRetryLoop ~> ~InRetryLoop

\* every attempt of a record ended on a login page, and the loop was left
C13_Witness ==
  \E k \in 1..Len(toProcess) :
    /\ recs[k].loads = MAX_ATTEMPTS
    /\ recs[k].logins = MAX_ATTEMPTS
    /\ recs[k].fate = "skipped"

\* C14 as stated: once the handler has merged a payload into the buffer of a
\* thread, the flag and the cursor of the buffer are those of that payload
C14_BufferFlagsFollowLastPayload ==
  (/\ lastHarvest.merged
   /\ HasBuffer(lastHarvest.thread))
    => /\ capturedResponses[lastHarvest.thread].has_next_page = lastHarvest.has_next_page
       /\ capturedResponses[lastHarvest.thread].next_cursor = lastHarvest.next_cursor

\* the promise a download event settled, when a wait was armed as it came
SettledByEvent == promises[lastEvent.armed]

\* C15 as stated: a wait armed when a download that has begun completes is
\* resolved with the download directory joined with the suggested filename
\* of that download; one armed when a download is canceled or interrupted
\* is rejected with a DownloadError whose statusCode is 429 exactly when the
\* error text holds "429" or "rate limit", and undefined (0) otherwise
C15_EventSettlesArmedWait ==
  lastEvent.armed # 0 =>
    IF lastEvent.state = "completed"
    THEN /\ SettledByEvent.state = "resolved"
         /\ SettledByEvent.value = PathJoin(DownloadPath, lastEvent.file)
    ELSE /\ SettledByEvent.state = "rejected"
         /\ SettledByEvent.statusCode =
              IF lastEvent.error \in {"HTTP 429", "rate limit exceeded"} THEN 429 ELSE 0

\* C16 as stated: every armed wait eventually settles, whether or not a
\* progress event arrives for it; no wait stays pending forever
C16_ArmedWaitSettles ==
  \A p \in Callers :
    (downloadResolve = p /\ promises[p].state = "pending") ~> (promises[p].state # "pending")

\* C17 as stated: every call of waitForDownload that was given a trigger has
\* run that trigger exactly once by the time it waits on the promise
C17_TriggerRunsOnce ==
  \A c \in Callers :
    (callers[c].pc \in {"await", "done"} /\ callers[c].trigger # "none")
      => callers[c].triggerRuns = 1

\* ------------------------------------------------ downloadGeneratedFiles: claims
\* the pass of the loop for url u has ended
Attempted(u) == u < dlI \/ (u = dlI /\ dlPc \in {"loop", "done"})

InLocalFiles(u) == localFiles[u] # Null

SkipCount(u) == Cardinality({k \in DOMAIN skippedFiles : skippedFiles[k].url = u})

\* C18: once the loop runs the call never throws; a url whose pass ended with
\* a fetch error, a non-media or empty answer, no download or a timeout has
\* exactly one skipped entry and no local file, a saved or downloaded one has a
\* local file and no skipped entry, a url not yet reached has neither, and on
\* return every candidate url has been through its pass
C18_EveryUrlLocalOrSkipped ==
  /\ dlPc = "threw" => dlI = 0
  /\ dlPc = "done" => \A u \in CandidateUrls : Attempted(u)
  /\ \A u \in CandidateUrls :
       IF ~Attempted(u)
       THEN ~InLocalFiles(u) /\ SkipCount(u) = 0
       ELSE IF dlCause[u] \in FailureCauses
       THEN ~InLocalFiles(u) /\ SkipCount(u) = 1
       ELSE /\ dlCause[u] \in {"saved", "download"}
            /\ InLocalFiles(u)
            /\ SkipCount(u) = 0

\* a call that returned with a timed-out url skipped and a later url downloaded
C18_Witness ==
  /\ dlPc = "done"
  /\ \E u, v \in CandidateUrls :
       /\ u < v
       /\ dlCause[u] = "timeout" /\ SkipCount(u) = 1
       /\ dlCause[v] = "download" /\ InLocalFiles(v)

\* the modification time of an entry: updated_datetime, else
\* entry_updated_datetime, 0 when it carries neither
ModificationTime(e) ==
  IF e.updated_datetime # 0 THEN e.updated_datetime ELSE e.entry_updated_datetime

ModificationTimes(entries) ==
  {ModificationTime(entries[k]) : k \in 1..Len(entries)} \ {0}

\* C20: the step that saves a fetched record stores as lastUpdated the
\* greatest modification time over the entries of the thread, and the time
\* of the step when no entry carries one
C20_LastUpdatedIsLatest ==
  [][(runPc = "captured" /\ runPc' = "for") =>
       LET times == ModificationTimes(runThreadData.entries)
           stored == doneFile'[CurrentUrl].lastUpdated
       IN IF times = {} THEN stored = clock
          ELSE stored \in times /\ \A t \in times : t <= stored]_vars

\* a saved record whose two entries carry different times, the later stored
C20_Witness ==
  /\ runPc \in {"for", "complete"}
  /\ recs[1].fate = "committed"
  /\ Len(runThreadData.entries) = 2
  /\ ModificationTime(runThreadData.entries[1]) > 0
  /\ ModificationTime(runThreadData.entries[1]) < ModificationTime(runThreadData.entries[2])
  /\ runThreadData.entries[2].updated_datetime = 0
  /\ doneFile[toProcess[1]].lastUpdated = runThreadData.entries[2].entry_updated_datetime

\* C24 as stated: while the state file is one that cannot be parsed, the run
\* fetches no record and does not write the state file
C24_CorruptStateFileAbortsRun ==
  [][doneDisk.kind = "corrupt" =>
       /\ doneDisk' = doneDisk
       /\ \A k \in 1..Len(toProcess) : recs'[k].loads = recs[k].loads]_vars

\* C25 as stated: the step that commits a record leaves in the search index
\* exactly one entry with the id of the record, holding the values of this
\* commit, and every entry of another id that the index held before
C25_IndexUpsertedOnCommit ==
  [][(runPc = "captured" /\ runPc' = "for") =>
       LET id == CurrentUrl
           before == searchIndex.items
           after == searchIndex'.items
       IN /\ Cardinality({i \in 1..Len(after) : after[i].id = id}) = 1
          /\ runThreadData.entries # <<>> =>
               \A i \in 1..Len(after) :
                 after[i].id = id => after[i] = IndexEntry(id, runThreadData.entries)
          /\ \A j \in 1..Len(before) :
               before[j].id # id => \E i \in 1..Len(after) : after[i] = before[j]]_vars

\* list b is list a followed by exactly one entry
OneAppended(a, b) ==
  /\ Len(b) = Len(a) + 1
  /\ SubSeq(b, 1, Len(a)) = a

\* C26 as stated: every step that changes the error log or the skipped-file
\* log keeps the entries the file held, in their order, and adds one entry
C26_LogsAreAppendOnly ==
  [][/\ errors' # errors => OneAppended(errors, errors')
     /\ skippedLog' # skippedLog => OneAppended(skippedLog, skippedLog')]_vars

\* ------------------------------------------------ runAutoExport: order of phases
\* the record at position k of the batch is done with
Settled(k) == recs[k].fate \in {"skipped", "committed"}

\* the state file holds the record the run keeps for position k
Persisted(k) ==
  /\ IsProcessed(doneDisk.processed, toProcess[k])
  /\ doneDisk.processed[toProcess[k]] = doneFile[toProcess[k]]

\* C21: a record is fetched only when every record before it in the batch was
\* skipped or has its record in the state file; artifacts are captured only
\* for a fetched record, and a record is committed only after its fetch and
\* its artifact capture
C21_OneRecordAtATime ==
  \A k \in 1..Len(toProcess) :
    /\ recs[k].loads > 0 =>
         \A j \in 1..(k - 1) :
           /\ Settled(j)
           /\ recs[j].fate = "committed" => Persisted(j)
    /\ recs[k].captured => recs[k].loads > 0
    /\ recs[k].fate = "committed" =>
         /\ recs[k].captured
         /\ Persisted(k)

\* the second record is being fetched after the first was committed
C21_Witness ==
  /\ Len(toProcess) = 2
  /\ recs[1].fate = "committed" /\ recs[1].captured
  /\ runI = 2
  /\ recs[2].loads > 0
  /\ recs[2].fate = "pending"

\* ------------------------------------------------ downloadGeneratedFiles: waits
\* the wait armed by call p of waitForDownload is still outstanding
Outstanding(p) == downloadResolve = p /\ promises[p].state = "pending"

\* C27 as stated: when downloadGeneratedFiles has returned, no wait that it
\* armed is outstanding
C27_NoWaitOutstandingOnReturn ==
  dlPc = "done" => \A p \in Callers : ~Outstanding(p)

\* C30 as stated: a wait resolved by the completed event of a download holds
\* the path of that download, also when another download began after it
C30_ResolvesWithCompletedDownload ==
  (/\ lastEvent.armed # 0
   /\ lastEvent.state = "completed"
   /\ SettledByEvent.state = "resolved")
    => SettledByEvent.value = PathJoin(DownloadPath, lastEvent.file)

\* ------------------------------------------------- the record after the handoff
\* C28 as stated: once loadThreadFromURL has handed its record over, the
\* entries, the flag and the cursor of that record stay as they were returned,
\* whatever response the handler sees before the next call
C28_HandedOverRecordIsStable ==
  [][(svPc = "done" /\ svPc' = "done") => ResultConversation' = ResultConversation]_vars

\* ------------------------------------------------------- harvest and timeout
\* a record-detail response of the requested thread was seen since the call
\* of loadThreadFromURL cleared the buffer
SeenSinceStart == lastHarvest.thread = currentThreadId

\* part_005:590-599: the wait loop is left with the timeout error exactly when
\* the buffer is still empty after the last sleep
TimeoutIffNothingBuffered ==
  (svPc = "poll" /\ svPc' # "poll") =>
    (svPc' = "threw_timeout"
       <=> (~HasBuffer(currentThreadId) /\ waitAttempts = MAX_WAIT_ATTEMPTS))

\* C29: a record-detail response of the requested thread seen at any moment
\* after the call began, also before the wait loop, is in the buffer while
\* the call polls, and the call throws the timeout error if and only if
\* nothing was buffered by the end of its ten sleeps
C29_PassiveHarvestAndTimeout ==
  /\ [](svPc \in {"nav", "poll"} /\ SeenSinceStart => HasBuffer(currentThreadId))
  /\ [][TimeoutIffNothingBuffered]_vars

\* the response came during the navigation and the wait loop starts with it
C29_Witness ==
  /\ svPc = "poll"
  /\ waitAttempts = 0
  /\ SeenSinceStart
  /\ HasBuffer(currentThreadId)

\* ------------------------------------------------- the frame of the handler
\* the buffers of all threads but t are what they were
OthersUnchanged(t) ==
  /\ DOMAIN capturedResponses' \subseteq DOMAIN capturedResponses \cup {t}
  /\ \A x \in DOMAIN capturedResponses \ {t} :
       /\ x \in DOMAIN capturedResponses'
       /\ capturedResponses'[x] = capturedResponses[x]

\* C31: a response that is no GET on the record-detail endpoint, that is for
\* list_recent or that has no entries leaves every buffer as it was, and a
\* record-detail response of thread t leaves the buffers of the other threads
\* as they were
C31_ObserveChangesOwnBufferOnly ==
  [][/\ ObserveDropped => capturedResponses' = capturedResponses
     /\ \A t \in ThreadIds : ObserveThread(t) => OthersUnchanged(t)]_vars

\* both threads are buffered with different entries, the second one last
C31_Witness ==
  /\ HasBuffer("t1") /\ HasBuffer("t2")
  /\ lastHarvest.thread = "t2"
  /\ capturedResponses["t1"].entries # capturedResponses["t2"].entries
  /\ capturedResponses["t1"].entries # <<>>

\* ------------------------------------------------- fetchNextPages: the result
\* sequence b is sequence a with entries of unseen uuids put in front of it
PutInFront(a, b) ==
  /\ Len(b) > Len(a)
  /\ SubSeq(b, Len(b) - Len(a) + 1, Len(b)) = a
  /\ Uuids(SubSeq(b, 1, Len(b) - Len(a))) \cap Uuids(a) = {}

\* C32: what fetchNextPages returns holds each uuid of the first page and of
\* the pages fetched without error exactly once, and a page that adds entries
\* puts them in front of everything merged before it
C32_PagesMergedOnceInFront ==
  /\ []((svPc = "returned" /\ ~threadData.shared)
          => /\ Uuids(allEntries) = fetchedKeys
             /\ NoDuplicates(allEntries))
  /\ [][(svPc = "fetching" /\ allEntries' # allEntries)
          => PutInFront(allEntries, allEntries')]_vars

\* the second page brought one older entry and ended the pagination
C32_Witness ==
  /\ svPc = "returned"
  /\ ~threadData.shared
  /\ nextPageData = "ok"
  /\ pageNum = 2
  /\ newCount = 1
  /\ Len(allEntries) = 2
  /\ Cardinality(fetchedKeys) = 2

\* --------------------------------------------------- the listing scroll: claims
\* C33: the scroll loop ends, it ends with the round after which the count
\* was the same for three rounds, or in top mode reached the limit, or the
\* round number passed the safety limit, and it never runs more than 101
\* rounds
C33_ScrollLoopTerminates ==
  /\ <>(scPc \in {"done", "threw"})
  /\ [](scrollRounds <= SCROLL_SAFETY_LIMIT + 1)
  /\ [][(scPc = "loop" /\ scPc' # "threw")
          => (scPc' = "done"
                <=> \/ stableRounds' >= MAX_STABLE_ROUNDS
                    \/ scanMode = "top" /\ previousCount' >= scanLimit
                    \/ scrollRounds' > SCROLL_SAFETY_LIMIT)]_vars

\* the loop ran into the safety limit
C33_Witness ==
  /\ scPc = "done"
  /\ scrollRounds = SCROLL_SAFETY_LIMIT + 1
  /\ stableRounds < MAX_STABLE_ROUNDS

\* ------------------------------------------------------ saveConversation: claims
\* the calls of waitForDownload made so far
Calls == Len(outcomes) + (IF svcPc = "waiting" THEN 1 ELSE 0)

\* C34: saveConversation calls waitForDownload at most 4 times; a rejection
\* with status 429 goes to the cooldown and another attempt while it is not
\* the 4th, the 4th is rethrown, and a rejection with any other status is
\* rethrown at once
C34_RateLimitRetryIsBounded ==
  /\ [](Calls <= 4)
  /\ [][(svcPc = "waiting" /\ svcPc' # "returned")
          => LET error == outcomes'[Len(outcomes')]
             IN IF error.statusCode = 429 /\ Len(outcomes') < 4
                THEN svcPc' = "cooldown"
                ELSE svcPc' = "threw" /\ thrown' = error]_vars

\* the fourth download in a row was rate limited and its error was rethrown
C34_Witness ==
  /\ svcPc = "threw"
  /\ Len(outcomes) = 4
  /\ thrown.statusCode = 429
  /\ \A k \in 1..4 : outcomes[k].statusCode = 429

\* ---------------------------------------------------------------- server: claims
\* C35 as stated: the callback of the inactivity timer runs only while no
\* export is in progress
C35_TimerFiresOnlyWhenIdle ==
  [][TimerFires => ~isExporting]_vars

\* C36: at most one export handler is past the gate and at most one run is
\* active, a request answered while one is in progress gets 429 and starts
\* nothing, and isExporting is false again once the handler has ended
C36_OneExportAtATime ==
  /\ [](Cardinality(Active) <= 1)
  /\ [](isExporting <=> Active # {})
  /\ [][\A r \in Requests :
          (Active # {} /\ responses'[r] # responses[r])
            => responses'[r] = 429 /\ handlers' = handlers]_vars

\* a request was turned away while the run of another one is active
C36_Witness ==
  /\ Running = {1}
  /\ isExporting
  /\ responses = <<200, 429>>

\* ------------------------------------------- DownloadManager: a trigger that threw
\* C37 as stated: when the trigger of waitForDownload threw, the manager is
\* idle afterwards: no promise is outstanding and no resolve or reject
\* callback of the abandoned promise stays registered
C37_IdleAfterTriggerThrew ==
  [][TriggerThrows
       => /\ downloadPromise' = 0
          /\ downloadResolve' = 0
          /\ downloadReject' = 0]_vars

\* ------------------------------------------------------ inline artifacts: claims
\* the artifacts returned under the filename f
Returned(f) == {j \in 1..Len(inlineArtifacts) : inlineArtifacts[j].filename = f}

\* C38 as stated: every CODE_FILE asset with content in an entry of the
\* returned record, also of an entry that came with a later page, is in the
\* returned inlineArtifacts, once per filename
C38_EveryCodeFileIsReturned ==
  svPc = "returned" =>
    \A i \in 1..Len(ResultConversation.entries) :
      LET asset == codeFiles[ResultConversation.entries[i].uuid] IN
        (asset.kind = "CODE_FILE" /\ asset.content > 0)
          => Cardinality(Returned(asset.filename)) = 1

\* --------------------------------------------------- incremental sync: claims
\* the text stands for a modification at or before the instant t: a relative
\* text and a date with a time of day stand for the instant they name, a
\* bare date for some instant of its day
DenotesNotLaterThan(text, t) ==
  \/ text.form \in {"short", "ago"} /\ clock - UnitMs(text.amount, text.unit) <= t
  \/ text.form \in {"just now", "now"} /\ clock <= t
  \/ text.form = "datetime" /\ text.amount * DAY + 12 * HOUR <= t
  \/ text.form = "date" /\ text.amount * DAY <= t

\* C39 as stated: a link whose record was committed at T and whose timestamp
\* text stands for a modification not later than T (also a bare date that is
\* the day of T) is classified not due
C39_UnchangedRecordNotDue ==
  (/\ Classified
   /\ HasRecord
   /\ DenotesNotLaterThan(conv.libraryTimestamp, doneFile[conv.url].downloadedAt))
    => verdict = "not due"

\* ------------------------------------------------------------- status: claims
\* runAutoExport has returned: after its loop, with nothing to do, or from
\* its catch clause
RunReturned == runPc \in {"complete", "fatal"}

\* C40 as stated: once runAutoExport has returned, the status record written
\* last is inactive, whenever the writes of the scan callback finish
C40_StatusInactiveAfterReturn ==
  RunReturned => ~status.active

====
